---- MODULE Spec2Model ----
(***************************************************************************)
(* Orchestration subsystem of voice-automation-platform: the agent        *)
(* factory, the workflow coordinator (DAG scheduler), the orchestration   *)
(* engine and the quality gate retry loop.                                *)
(*                                                                         *)
(* Concurrency is asyncio's: a coroutine runs without interruption from   *)
(* one suspension point to the next, so each action below is the code     *)
(* between two suspension points (task start, the await of the agent      *)
(* runtime, the await of gather).  Tasks that are ready run in any order. *)
(***************************************************************************)
EXTENDS Integers, Sequences, FiniteSets, TLC

(***************************************************************************)
(* Bounds of the model.                                                    *)
(***************************************************************************)
MaxResumes == 1          \* calls of resume_workflow that start a new run

Roles == {"a", "b"}

NoTime == 0              \* started_at / completed_at = None
NoTask == 0              \* execution_tasks.get(agent.id) = None

Range(s) == {s[i] : i \in DOMAIN s}

(***************************************************************************)
(* OrchestrationConfig: children (the domain of depends_on), each child's  *)
(* depends_on list, and max_parallel_agents.                               *)
(***************************************************************************)
Configs ==
    { \* one level of two, wider than max_parallel_agents
      [depends_on |-> [a |-> <<>>, b |-> <<>>], max_parallel_agents |-> 1],
      \* a -> b
      [depends_on |-> [a |-> <<>>, b |-> <<"a">>], max_parallel_agents |-> 5],
      \* a two-cycle
      [depends_on |-> [a |-> <<"b">>, b |-> <<"a">>], max_parallel_agents |-> 5],
      \* a self-dependency beside a free role
      [depends_on |-> [a |-> <<>>, b |-> <<"b">>], max_parallel_agents |-> 5],
      \* a depends_on entry that names no child
      [depends_on |-> [a |-> <<>>, b |-> <<"c">>], max_parallel_agents |-> 5] }

Children(cfg) == DOMAIN cfg.depends_on

(***************************************************************************)
(* VoiceCommandParser.calculate_execution_order: Kahn levels.  in_degree   *)
(* starts at len(depends_on); a level is every remaining role of in-degree *)
(* zero; an empty level with roles remaining raises ValueError.            *)
(***************************************************************************)
RECURSIVE KahnLevels(_, _, _, _)
KahnLevels(cfg, remaining, in_degree, levels) ==
    IF remaining = {} THEN [ok |-> TRUE, levels |-> levels]
    ELSE LET current_level == {role \in remaining : in_degree[role] = 0}
         IN  IF current_level = {}
             THEN [ok |-> FALSE, levels |-> levels]
             ELSE KahnLevels(
                    cfg,
                    remaining \ current_level,
                    [dependent \in Children(cfg) |->
                        in_degree[dependent]
                        - Cardinality({role \in current_level :
                                          role \in Range(cfg.depends_on[dependent])})],
                    Append(levels, current_level))

\* The order without the ValueError: the levels found before the pass that
\* yields no role.
calculate_execution_order_no_raise(cfg) ==
    [ok |-> TRUE,
     levels |-> KahnLevels(cfg, Children(cfg),
                           [role \in Children(cfg) |-> Len(cfg.depends_on[role])],
                           <<>>).levels]

\* The order of a sort that counts only the depends_on entries naming a
\* child, so that an entry naming no child holds nothing back.
calculate_execution_order_known_only(cfg) ==
    KahnLevels(cfg, Children(cfg),
               [role \in Children(cfg) |->
                   Len(SelectSeq(cfg.depends_on[role],
                                 LAMBDA dependency : dependency \in Children(cfg)))],
               <<>>)

calculate_execution_order(cfg) ==
    KahnLevels(cfg, Children(cfg),
               [role \in Children(cfg) |-> Len(cfg.depends_on[role])], <<>>)

(***************************************************************************)
(* AgentFactory.update_agent_state / update_workflow_state on one record.  *)
(***************************************************************************)
update_agent_state(agent, state, t) ==
    [state |-> state,
     started_at |-> IF state = "running" /\ agent.started_at = NoTime
                    THEN t ELSE agent.started_at,
     completed_at |-> IF state \in {"completed", "failed"}
                      THEN t ELSE agent.completed_at]

update_workflow_state(wf, state, t) ==
    [state |-> state,
     started_at |-> IF state = "running" /\ wf.started_at = NoTime
                    THEN t ELSE wf.started_at,
     completed_at |-> IF state \in {"completed", "failed"}
                      THEN t ELSE wf.completed_at]


VARIABLES
    config,           \* workflow.config
    child_agents,     \* roles with an instance in workflow.child_agents
    workflow,         \* WorkflowContext: state, started_at, completed_at
    agents,           \* role -> AgentInstance: state, started_at, completed_at
    execution_tasks,  \* role -> the run whose task was registered last
    runs,             \* the invocations of WorkflowCoordinator.execute_workflow
    events,           \* what create_event has published, in order
    now,              \* datetime.now(): it advances while a task awaits the
                      \* agent runtime, and its reads in between may be equal
    wfTrail,          \* the workflow states of the last step: the state it began
                      \* in, then each state update_workflow_state assigned
    cancelled_runs,   \* the runs that were awaiting a level when cancel_workflow
                      \* was called
    vr,               \* a call of QualityGateSystem.validate_with_retry
    ea,               \* a call of OrchestrationEngine.execute_agent
    adapter,          \* WebhookEventAdapter: queue, worker and handler tasks
    store,            \* EnhancedMemoryStore: entities, indexes and snapshot
    manager,          \* WebhookManager: webhooks, deliveries and their history
    raises,           \* the handler coroutines that ended by raising
    validation,       \* a gate, an output, an agent and the results validate gave
    factory,          \* AgentFactory: workflows and agents
    plan              \* a plan and what calculate_execution_order made of it

vars == <<config, child_agents, workflow, agents, execution_tasks, runs, events,
          now, wfTrail, cancelled_runs, vr, ea, adapter, store, manager, raises,
          validation, factory, plan>>

scheduler_vars == <<config, child_agents, workflow, agents, execution_tasks, runs,
                    events, now, wfTrail, cancelled_runs>>

Order == calculate_execution_order(config)

TaskDone(t) == t \in {"ok", "exc", "cancelled"}

(***************************************************************************)
(* A workflow as AgentFactory.create_workflow and spawn_agents leave it:   *)
(* parent and every child registered in state CREATING, nothing started.   *)
(* Each instance carries its runtime agent under metadata["agent"], the    *)
(* entry _execute_agent reads.                                             *)
(***************************************************************************)
SchedulerInit(configs) ==
    /\ config \in configs
    /\ child_agents = Children(config)
    /\ workflow = [state |-> "creating", started_at |-> NoTime, completed_at |-> NoTime]
    /\ agents = [r \in Roles |->
                    [state |-> "creating", started_at |-> NoTime, completed_at |-> NoTime]]
    /\ execution_tasks = [r \in Roles |-> NoTask]
    /\ runs = <<>>
    /\ events = <<>>
    /\ now = 1
    /\ wfTrail = <<"creating">>
    /\ cancelled_runs = {}

NoCall == [pc |-> "idle"]

\* A dict with no key.
EmptyDict == [k \in {} |-> {}]

\* WebhookEventAdapter.__init__: an empty queue, no worker.  published lists
\* the events given to emit, in order; an event is named by its place in it.
\* tasks are the handler and webhook coroutines gather has not collected yet,
\* observed is what each of them was started on.
NewAdapter ==
    [running |-> FALSE, worker_task |-> "none", event_queue |-> <<>>,
     current |-> 0, published |-> <<>>, tasks |-> {}, observed |-> EmptyDict]

\* IndexManager.__init__ (the word indexes are left out).
NewIndexes ==
    [thread_by_status |-> EmptyDict, thread_by_metadata |-> EmptyDict,
     item_by_type |-> EmptyDict, item_by_tag |-> EmptyDict,
     attachment_by_type |-> EmptyDict]

\* What _persist writes: the three maps of to_dict() values.
NoData == [threads |-> EmptyDict, items |-> EmptyDict, attachments |-> EmptyDict]

\* EnhancedMemoryStore.__init__ with a persist_path at which no file exists.
NewStore ==
    [threads |-> EmptyDict, items |-> EmptyDict, attachments |-> EmptyDict,
     indexes |-> NewIndexes, disk |-> NoData]

\* json.dumps with its defaults, and the compact form without escapes.
PythonJson == [item_separator |-> ", ", key_separator |-> ": ", ensure_ascii |-> TRUE]
CompactJson == [item_separator |-> ",", key_separator |-> ":", ensure_ascii |-> FALSE]

\* WebhookManager.__init__: no webhook, no history.  webhooks lists the
\* registered webhooks in the order of the dict; calls are the trigger_event
\* calls that await a response; delivered counts the records appended so far;
\* httpx is how the installed httpx encodes the json= argument of post.
NewManager(encoding) ==
    [webhooks |-> <<>>, delivery_history |-> <<>>, calls |-> {}, triggered |-> 0,
     delivered |-> 0, httpx |-> encoding]

\* AgentFactory.__init__
NewFactory == [workflows |-> EmptyDict, agents |-> EmptyDict]

\* The variables of the components a scheduler step leaves alone.
engine_vars == <<vr, ea>>
hub_vars == <<adapter, store>>
component_vars == <<manager, raises, validation, factory, plan>>

ComponentsInit ==
    /\ manager = NewManager(PythonJson)
    /\ raises = {}
    /\ validation = NoCall
    /\ factory = NewFactory
    /\ plan = NoCall

Init ==
    /\ SchedulerInit(Configs)
    /\ vr = NoCall
    /\ ea = NoCall
    /\ adapter = NewAdapter
    /\ store = NewStore
    /\ ComponentsInit

(***************************************************************************)
(* WorkflowCoordinator._execute_level, up to its await of gather: a task   *)
(* is created for each role of the level, in the level's list order; a     *)
(* role without an instance raises ValueError, leaving the tasks created   *)
(* before it scheduled.  The list order is a set's iteration order, so     *)
(* the roles launched before the raise are any of the level's instances.   *)
(***************************************************************************)
LaunchChoices(level) ==
    IF level \subseteq child_agents THEN {level}
    ELSE SUBSET (level \cap child_agents)

PutRun(i, run) ==
    IF i = Len(runs) + 1 THEN Append(runs, run) ELSE [runs EXCEPT ![i] = run]

\* OrchestrationEngine.execute_workflow publishes the terminal event; a run
\* started by resume_workflow goes to the coordinator directly.
Publish(via, trigger) ==
    IF via = "engine" THEN Append(events, <<trigger, "-">>) ELSE events

(***************************************************************************)
(* WorkflowCoordinator.execute_workflow from the head of its level loop,   *)
(* at level lvl, to its next suspension or its end.  wf and moves are the  *)
(* workflow record and trail as the caller has left them.                  *)
(***************************************************************************)
ExecuteLevels(i, via, lvl, task, wf, trail) ==
    IF lvl > Len(Order.levels)
    THEN /\ workflow' = update_workflow_state(wf, "completed", now)
         /\ wfTrail' = Append(trail, "completed")
         /\ runs' = PutRun(i, [via |-> via, pc |-> "returned", level |-> lvl, task |-> task])
         /\ events' = Publish(via, "workflow.completed")
         /\ UNCHANGED execution_tasks
    ELSE \E created \in LaunchChoices(Order.levels[lvl]) :
            LET launched == [r \in Roles |-> IF r \in created THEN "pending" ELSE task[r]]
            IN  /\ execution_tasks' =
                      [r \in Roles |-> IF r \in created THEN i ELSE execution_tasks[r]]
                /\ IF created = Order.levels[lvl]
                   THEN /\ workflow' = wf
                        /\ wfTrail' = trail
                        /\ runs' = PutRun(i, [via |-> via, pc |-> "gather",
                                              level |-> lvl, task |-> launched])
                        /\ UNCHANGED events
                   ELSE /\ workflow' = update_workflow_state(wf, "failed", now)
                        /\ wfTrail' = Append(trail, "failed")
                        /\ runs' = PutRun(i, [via |-> via, pc |-> "raised",
                                              level |-> lvl, task |-> launched])
                        /\ events' = Publish(via, "workflow.failed")

(***************************************************************************)
(* WorkflowCoordinator.execute_workflow, from its call to its first        *)
(* suspension: RUNNING, then the execution order, then the first level.    *)
(***************************************************************************)
StartRun(via) ==
    LET i == Len(runs) + 1
        running == update_workflow_state(workflow, "running", now)
        trail == <<workflow.state, "running">>
        notask == [r \in Roles |-> "none"]
    IN  /\ IF Order.ok
           THEN ExecuteLevels(i, via, 1, notask, running, trail)
           ELSE /\ workflow' = update_workflow_state(running, "failed", now)
                /\ wfTrail' = Append(trail, "failed")
                /\ runs' = Append(runs, [via |-> via, pc |-> "raised",
                                         level |-> 0, task |-> notask])
                /\ events' = Publish(via, "workflow.failed")
                /\ UNCHANGED execution_tasks
        /\ UNCHANGED <<config, child_agents, agents, now, cancelled_runs>>

EngineRuns == {i \in DOMAIN runs : runs[i].via = "engine"}
ResumeRuns == {i \in DOMAIN runs : runs[i].via = "resume"}

\* OrchestrationEngine.execute_workflow, called once for the workflow.
ExecuteWorkflow ==
    /\ EngineRuns = {}
    /\ StartRun("engine")

\* WorkflowCoordinator.resume_workflow: ValueError unless the state is PAUSED.
ResumeWorkflow ==
    /\ workflow.state = "paused"
    /\ Cardinality(ResumeRuns) < MaxResumes
    /\ StartRun("resume")

(***************************************************************************)
(* WorkflowCoordinator._execute_agent as the task of run i for role r:     *)
(* RUNNING and the prompt, up to the await of the agent runtime.           *)
(***************************************************************************)
TaskStart(i, r) ==
    /\ runs[i].task[r] = "pending"
    /\ agents' = [agents EXCEPT ![r] = update_agent_state(@, "running", now)]
    /\ runs' = [runs EXCEPT ![i].task[r] = "running"]
    /\ wfTrail' = <<workflow.state>>
    /\ UNCHANGED <<config, child_agents, workflow, execution_tasks, events, now,
                   cancelled_runs>>

\* The agent runtime returns (COMPLETED) or raises (FAILED, re-raised).
TaskFinish(i, r, ok) ==
    LET state == IF ok THEN "completed" ELSE "failed"
    IN  /\ runs[i].task[r] = "running"
        /\ now' = now + 1
        /\ agents' = [agents EXCEPT ![r] = update_agent_state(@, state, now')]
        /\ runs' = [runs EXCEPT ![i].task[r] = IF ok THEN "ok" ELSE "exc"]
        /\ wfTrail' = <<workflow.state>>
        /\ UNCHANGED <<config, child_agents, workflow, execution_tasks, events,
                       cancelled_runs>>

(***************************************************************************)
(* WorkflowCoordinator._execute_level after gather, and the rest of        *)
(* execute_workflow's loop.  A cancelled task's result is a CancelledError,*)
(* which is no Exception (a BaseException since Python 3.8; the agents     *)
(* runtime imported by the factory needs 3.9): only a task that raised     *)
(* marks its agent FAILED and fails the workflow (the first such task in   *)
(* the level's list order).                                                *)
(***************************************************************************)
LevelSettled(i) ==
    LET level == Order.levels[runs[i].level]
        raised == {r \in level : runs[i].task[r] = "exc"}
    IN  /\ runs[i].pc = "gather"
        /\ \A r \in level : TaskDone(runs[i].task[r])
        /\ IF raised = {}
           THEN /\ ExecuteLevels(i, runs[i].via, runs[i].level + 1, runs[i].task,
                                 workflow, <<workflow.state>>)
                /\ UNCHANGED agents
           ELSE \E r \in raised :
                /\ agents' = [agents EXCEPT ![r] = update_agent_state(@, "failed", now)]
                /\ workflow' = update_workflow_state(workflow, "failed", now)
                /\ wfTrail' = <<workflow.state, "failed">>
                /\ runs' = [runs EXCEPT ![i].pc = "raised"]
                /\ events' = Publish(runs[i].via, "workflow.failed")
                /\ UNCHANGED execution_tasks
        /\ UNCHANGED <<config, child_agents, now, cancelled_runs>>

(***************************************************************************)
(* WorkflowCoordinator.cancel_workflow: every agent in state RUNNING has   *)
(* its registered task cancelled, if that task is not done, and is set     *)
(* CANCELLED; then the workflow is set CANCELLED.  get_workflow_agents     *)
(* also yields the parent agent, which is never RUNNING.                   *)
(***************************************************************************)
CancelTargets == {r \in child_agents : agents[r].state = "running"}

CancelTasks(rs) ==
    [i \in DOMAIN runs |->
        [runs[i] EXCEPT !.task =
            [r \in Roles |->
                IF r \in rs /\ execution_tasks[r] = i /\ ~TaskDone(runs[i].task[r])
                THEN "cancelled" ELSE runs[i].task[r]]]]

CancelWorkflow ==
    /\ runs' = CancelTasks(CancelTargets)
    /\ agents' = [r \in Roles |->
                    IF r \in CancelTargets
                    THEN update_agent_state(agents[r], "cancelled", now)
                    ELSE agents[r]]
    /\ workflow' = update_workflow_state(workflow, "cancelled", now)
    /\ wfTrail' = <<workflow.state, "cancelled">>
    /\ cancelled_runs' = cancelled_runs \cup {i \in DOMAIN runs : runs[i].pc = "gather"}
    /\ UNCHANGED <<config, child_agents, execution_tasks, events, now>>

\* WorkflowCoordinator.pause_workflow.
PauseWorkflow ==
    /\ workflow' = update_workflow_state(workflow, "paused", now)
    /\ wfTrail' = <<workflow.state, "paused">>
    /\ UNCHANGED <<config, child_agents, agents, execution_tasks, runs, events, now,
                   cancelled_runs>>

Next ==
    \/ ExecuteWorkflow /\ UNCHANGED <<engine_vars, hub_vars, component_vars>>
    \/ ResumeWorkflow /\ UNCHANGED <<engine_vars, hub_vars, component_vars>>
    \/ \E i \in DOMAIN runs, r \in Roles : TaskStart(i, r) /\ UNCHANGED <<engine_vars, hub_vars, component_vars>>
    \/ \E i \in DOMAIN runs, r \in Roles, ok \in BOOLEAN :
          TaskFinish(i, r, ok) /\ UNCHANGED <<engine_vars, hub_vars, component_vars>>
    \/ \E i \in DOMAIN runs : LevelSettled(i) /\ UNCHANGED <<engine_vars, hub_vars, component_vars>>
    \/ CancelWorkflow /\ UNCHANGED <<engine_vars, hub_vars, component_vars>>
    \/ PauseWorkflow /\ UNCHANGED <<engine_vars, hub_vars, component_vars>>

Spec == Init /\ [][Next]_vars

(***************************************************************************)
(* A workflow as AgentFactory.create_workflow leaves it when spawn_children *)
(* was not called, or spawn_child_agent was called for some of the          *)
(* children only: workflow.child_agents holds any part of the plan's        *)
(* children.  No code but spawn_child_agent adds to child_agents.           *)
(***************************************************************************)
UnspawnedInit ==
    /\ config \in Configs
    /\ child_agents \in SUBSET Children(config)
    /\ workflow = [state |-> "creating", started_at |-> NoTime, completed_at |-> NoTime]
    /\ agents = [r \in Roles |->
                    [state |-> "creating", started_at |-> NoTime, completed_at |-> NoTime]]
    /\ execution_tasks = [r \in Roles |-> NoTask]
    /\ runs = <<>>
    /\ events = <<>>
    /\ now = 1
    /\ wfTrail = <<"creating">>
    /\ cancelled_runs = {}
    /\ vr = NoCall
    /\ ea = NoCall
    /\ adapter = NewAdapter
    /\ store = NewStore
    /\ ComponentsInit

UnspawnedSpec == UnspawnedInit /\ [][Next]_vars

(***************************************************************************)
(* QualityGateSystem.validate_with_retry.                                  *)
(*                                                                         *)
(* MaxRetries is QualityGate.max_retries' upper limit (ge=0, le=5).  A     *)
(* call is given the gate and whether retry_func is passed; the outputs    *)
(* are numbered: 0 is the output passed in, k the one the k-th call of     *)
(* retry_func returned.  What a validator answers for an output, and       *)
(* whether retry_func returns or raises, is the environment's choice.      *)
(***************************************************************************)
MaxRetries == 5

Gates == [retry_on_fail : BOOLEAN, max_retries : 0..MaxRetries]

\* QualityGateSystem.validate: a new QualityGateResult (retry_attempted
\* defaults to False); a validator's exception is a result that did not pass.
validate(passed, output) ==
    [passed |-> passed, output |-> output, retry_attempted |-> FALSE]

\* One more pass of the retry loop: entered when the first result did not
\* pass, the gate has retry_on_fail and retry_func is given; left by break on
\* a result that passed or when range(max_retries) is used up.
RetryOffByOne(gate, retry_func, result, attempt) ==
    /\ ~result.passed
    /\ gate.retry_on_fail
    /\ retry_func
    /\ attempt <= gate.max_retries

RetryAgain(gate, retry_func, result, attempt) ==
    /\ ~result.passed
    /\ gate.retry_on_fail
    /\ retry_func
    /\ attempt < gate.max_retries

\* After a validation: call retry_func once more, or return the result.
AfterValidation(result, outcomes) ==
    IF RetryAgain(vr.gate, vr.retry_func, result, vr.attempt)
    THEN [vr EXCEPT !.pc = "retrying", !.attempt = @ + 1,
                    !.result = result, !.outcomes = outcomes]
    ELSE [vr EXCEPT !.pc = "returned", !.result = result, !.outcomes = outcomes]

GateInit ==
    /\ SchedulerInit({[depends_on |-> [a |-> <<>>], max_parallel_agents |-> 5]})
    /\ vr \in [pc : {"called"}, gate : Gates, retry_func : BOOLEAN, attempt : {0},
               result : {validate(FALSE, 0)}, outcomes : {<<>>}]
    /\ ea = NoCall
    /\ adapter = NewAdapter
    /\ store = NewStore
    /\ ComponentsInit

\* result = await self.validate(gate, output, agent)
FirstValidation(passed) ==
    /\ vr.pc = "called"
    /\ vr' = AfterValidation(validate(passed, 0), <<passed>>)
    /\ UNCHANGED scheduler_vars

\* new_output = await retry_func(): it raises, or it returns the output that
\* is validated next, the result marked retry_attempted.
RetryReturned(ok, passed) ==
    /\ vr.pc = "retrying"
    /\ vr' = IF ok
             THEN AfterValidation(
                    [validate(passed, vr.attempt) EXCEPT !.retry_attempted = TRUE],
                    Append(vr.outcomes, passed))
             ELSE [vr EXCEPT !.pc = "raised"]
    /\ UNCHANGED scheduler_vars

GateNext ==
    \/ \E passed \in BOOLEAN : FirstValidation(passed) /\ UNCHANGED <<ea, hub_vars, component_vars>>
    \/ \E ok \in BOOLEAN, passed \in BOOLEAN :
          RetryReturned(ok, passed) /\ UNCHANGED <<ea, hub_vars, component_vars>>

GateSpec == GateInit /\ [][GateNext]_vars


(***************************************************************************)
(* OrchestrationEngine.execute_agent, called for the agent of role "a":    *)
(* the agent is run by _execute_agent, each gate of                        *)
(* agent.config.quality_gates is applied in order by validate_with_retry   *)
(* with retry_func = _execute_agent, and agent.completed is published with *)
(* the first output; any exception publishes agent.failed and is raised    *)
(* again.  create_event puts on an unbounded queue and does not suspend.   *)
(*                                                                         *)
(* The runs of the agent are numbered from 1, and an output is named by    *)
(* the run that returned it: ea.result is the output execute_agent holds   *)
(* in result, which it gives to each gate, to the agent.completed event    *)
(* and to its caller; ea.output is agent.output, which update_agent_state  *)
(* assigns when a run returns.  0 is no output yet.                        *)
(***************************************************************************)
MaxListRetries == 1      \* max_retries of the gates in lists of two gates

GateLists ==
    {<<>>} \cup {<<g>> : g \in Gates}
           \cup {<<g1, g2>> : g1 \in {g \in Gates : g.max_retries <= MaxListRetries},
                              g2 \in {g \in Gates : g.max_retries <= MaxListRetries}}

AgentInit ==
    /\ SchedulerInit({[depends_on |-> [a |-> <<>>], max_parallel_agents |-> 5]})
    /\ vr = NoCall
    /\ ea \in [pc : {"called"}, quality_gates : GateLists, gate : {0},
               gate_results : {<<>>}, result : {0}, output : {0}]
    /\ adapter = NewAdapter
    /\ store = NewStore
    /\ ComponentsInit

PublishAgent(published, trigger) == Append(published, <<trigger, "a">>)

\* The arguments execute_agent gives validate_with_retry.
GateCall(gate) ==
    [pc |-> "called", gate |-> gate, retry_func |-> TRUE, attempt |-> 0,
     result |-> validate(FALSE, 0), outcomes |-> <<>>]

\* The loop over the gates from gate k on, and what follows the loop; call
\* is the call with the outputs so far, published and results are the events
\* and gate results so far.
NextGate(call, published, k, results) ==
    IF k > Len(ea.quality_gates)
    THEN /\ events' = PublishAgent(published, "agent.completed")
         /\ ea' = [call EXCEPT !.pc = "returned", !.gate_results = results]
         /\ UNCHANGED vr
    ELSE /\ events' = published
         /\ ea' = [call EXCEPT !.pc = "gate", !.gate = k, !.gate_results = results]
         /\ vr' = GateCall(ea.quality_gates[k])

\* execute_agent up to _execute_agent's await of the agent runtime.
ExecuteAgent ==
    /\ ea.pc = "called"
    /\ agents' = [agents EXCEPT !["a"] = update_agent_state(@, "running", now)]
    /\ ea' = [ea EXCEPT !.pc = "running"]
    /\ UNCHANGED <<config, child_agents, workflow, execution_tasks, runs, events,
                   now, wfTrail, cancelled_runs, vr>>

\* The runtime returns (COMPLETED, then the gates) or raises (FAILED,
\* agent.failed).
AgentReturned(ok) ==
    /\ ea.pc = "running"
    /\ now' = now + 1
    /\ agents' = [agents EXCEPT !["a"] =
                    update_agent_state(@, IF ok THEN "completed" ELSE "failed", now')]
    /\ IF ok
       THEN NextGate([ea EXCEPT !.result = 1, !.output = 1], events, 1, ea.gate_results)
       ELSE /\ events' = PublishAgent(events, "agent.failed")
            /\ ea' = [ea EXCEPT !.pc = "raised"]
            /\ UNCHANGED vr
    /\ UNCHANGED <<config, child_agents, workflow, execution_tasks, runs, wfTrail,
                   cancelled_runs>>

\* The gate's first validation, of the output execute_agent passed in.
GateValidation(passed) ==
    /\ ea.pc = "gate"
    /\ FirstValidation(passed)
    /\ UNCHANGED ea

\* retry_func(): _execute_agent again, up to the await of the runtime.
RetryStart ==
    /\ ea.pc = "gate"
    /\ vr.pc = "retrying"
    /\ agents' = [agents EXCEPT !["a"] = update_agent_state(@, "running", now)]
    /\ ea' = [ea EXCEPT !.pc = "retrying"]
    /\ UNCHANGED <<config, child_agents, workflow, execution_tasks, runs, events,
                   now, wfTrail, cancelled_runs, vr>>

\* The retried run returns and its output is validated, or it raises
\* through validate_with_retry and execute_agent.
RetryFinish(ok, passed) ==
    /\ ea.pc = "retrying"
    /\ now' = now + 1
    /\ agents' = [agents EXCEPT !["a"] =
                    update_agent_state(@, IF ok THEN "completed" ELSE "failed", now')]
    /\ IF ok
       THEN /\ vr' = AfterValidation(
                       [validate(passed, vr.attempt) EXCEPT !.retry_attempted = TRUE],
                       Append(vr.outcomes, passed))
            /\ ea' = [ea EXCEPT !.pc = "gate", !.output = @ + 1]
            /\ UNCHANGED events
       ELSE /\ vr' = [vr EXCEPT !.pc = "raised"]
            /\ ea' = [ea EXCEPT !.pc = "raised"]
            /\ events' = PublishAgent(events, "agent.failed")
    /\ UNCHANGED <<config, child_agents, workflow, execution_tasks, runs, wfTrail,
                   cancelled_runs>>

\* validate_with_retry has returned gate_result: quality_gate.passed or
\* quality_gate.failed, ValueError for a failed gate without retry_on_fail,
\* else the next gate.
GateReturned ==
    LET passed == vr.result.passed
        published == PublishAgent(events, IF passed THEN "quality_gate.passed"
                                                    ELSE "quality_gate.failed")
        results == Append(ea.gate_results, passed)
    IN  /\ ea.pc = "gate"
        /\ vr.pc = "returned"
        /\ IF ~passed /\ ~vr.gate.retry_on_fail
           THEN /\ events' = PublishAgent(published, "agent.failed")
                /\ ea' = [ea EXCEPT !.pc = "raised", !.gate_results = results]
                /\ UNCHANGED vr
           ELSE NextGate(ea, published, ea.gate + 1, results)
        /\ UNCHANGED <<config, child_agents, workflow, agents, execution_tasks, runs,
                       now, wfTrail, cancelled_runs>>

AgentNext ==
    \/ ExecuteAgent /\ UNCHANGED <<hub_vars, component_vars>>
    \/ \E ok \in BOOLEAN : AgentReturned(ok) /\ UNCHANGED <<hub_vars, component_vars>>
    \/ \E passed \in BOOLEAN : GateValidation(passed) /\ UNCHANGED <<hub_vars, component_vars>>
    \/ RetryStart /\ UNCHANGED <<hub_vars, component_vars>>
    \/ \E ok \in BOOLEAN, passed \in BOOLEAN : RetryFinish(ok, passed) /\ UNCHANGED <<hub_vars, component_vars>>
    \/ GateReturned /\ UNCHANGED <<hub_vars, component_vars>>

AgentSpec == AgentInit /\ [][AgentNext]_vars


(***************************************************************************)
(* WebhookEventAdapter.  emit puts the event on the unbounded queue; the   *)
(* worker started by start() takes one event at a time, creates a          *)
(* coroutine for every webhook and every handler registered for the        *)
(* event's trigger and awaits them all with gather before it takes the     *)
(* next event.  stop() cancels the worker, and with it the gather and the  *)
(* coroutines it awaits: a coroutine ends where the cancellation reaches   *)
(* it.  Handlers are coroutine functions, as add_handler documents.        *)
(***************************************************************************)
MaxEvents == 3           \* events given to emit

Triggers == {"agent.completed", "agent.failed"}

WorkflowIds == {"w1", "w2"}

\* self.webhooks and self.handlers as add_webhook and add_handler left them.
webhooks == [trigger \in Triggers |->
                IF trigger = "agent.failed" THEN <<"hook">> ELSE <<>>]

handlers == [trigger \in Triggers |->
                IF trigger = "agent.completed"
                THEN <<"_handle_agent_completed", "audit">>
                ELSE <<"audit">>]

\* The workflow whose create_workflow registered each webhook, from its
\* config.webhooks (a WebhookConfig itself names no workflow).
webhook_workflow == [hook |-> "w1"]

\* tasks = [_call_webhook(...) for webhooks] extended by [handler(event) ...]
Subscribers(trigger) == webhooks[trigger] \o handlers[trigger]

\* await asyncio.gather(*tasks, return_exceptions=True) has its result: no
\* coroutine created for the event is still to finish.
GatheredNoWait(tasks, ev) == TRUE

Gathered(tasks, ev) == \A t \in tasks : t.ev # ev

WebhookInit ==
    /\ SchedulerInit({[depends_on |-> [a |-> <<>>], max_parallel_agents |-> 5]})
    /\ vr = NoCall
    /\ ea = NoCall
    /\ adapter = NewAdapter
    /\ store = NewStore
    /\ ComponentsInit

\* start(): nothing if running, else the worker task is created.
Start ==
    /\ ~adapter.running
    /\ adapter' = [adapter EXCEPT !.running = TRUE, !.worker_task = "get"]

\* stop(): the worker is cancelled and awaited.
Stop ==
    /\ adapter.running
    /\ adapter' = [adapter EXCEPT !.running = FALSE, !.worker_task = "none",
                                  !.tasks = {}]

\* emit(event), also as the last step of create_event.
Emit(trigger, workflow_id) ==
    /\ Len(adapter.published) < MaxEvents
    /\ adapter' = [adapter EXCEPT
                     !.published = Append(@, [trigger |-> trigger,
                                              workflow_id |-> workflow_id]),
                     !.event_queue = Append(@, Len(adapter.published) + 1)]

\* The worker's event_queue.get() returns; with nothing registered for the
\* trigger the worker goes back to the queue.
WorkerGet ==
    LET ev == Head(adapter.event_queue)
        subscribers == Range(Subscribers(adapter.published[ev].trigger))
    IN  /\ adapter.running
        /\ adapter.worker_task = "get"
        /\ adapter.event_queue # <<>>
        /\ adapter' = [adapter EXCEPT
                         !.event_queue = Tail(@),
                         !.current = ev,
                         !.tasks = @ \cup {[name |-> n, ev |-> ev, st |-> "pending"] :
                                             n \in subscribers},
                         !.worker_task = IF subscribers = {} THEN "get" ELSE "gather"]

\* A handler or webhook coroutine of the gather starts on its event.
HandlerStart(t) ==
    /\ t \in adapter.tasks
    /\ t.st = "pending"
    /\ adapter' = [adapter EXCEPT
                     !.tasks = (@ \ {t}) \cup {[t EXCEPT !.st = "running"]},
                     !.observed =
                        [n \in DOMAIN @ \cup {t.name} |->
                            IF n = t.name
                            THEN Append(IF n \in DOMAIN @ THEN @[n] ELSE <<>>, t.ev)
                            ELSE @[n]]]

\* It returns or raises: either way gather has its result.
HandlerFinish(t) ==
    /\ t \in adapter.tasks
    /\ t.st = "running"
    /\ adapter' = [adapter EXCEPT !.tasks = @ \ {t}]

\* gather returns and the worker loops back to the queue.
GatherDone ==
    /\ adapter.worker_task = "gather"
    /\ Gathered(adapter.tasks, adapter.current)
    /\ adapter' = [adapter EXCEPT !.worker_task = "get"]

WebhookNext ==
    \/ Start /\ UNCHANGED <<scheduler_vars, engine_vars, store, component_vars>>
    \/ Stop /\ UNCHANGED <<scheduler_vars, engine_vars, store, component_vars>>
    \/ \E trigger \in Triggers, workflow_id \in WorkflowIds :
          Emit(trigger, workflow_id) /\ UNCHANGED <<scheduler_vars, engine_vars, store, component_vars>>
    \/ WorkerGet /\ UNCHANGED <<scheduler_vars, engine_vars, store, component_vars>>
    \/ \E t \in adapter.tasks :
          HandlerStart(t) /\ UNCHANGED <<scheduler_vars, engine_vars, store, component_vars>>
    \/ \E t \in adapter.tasks :
          HandlerFinish(t) /\ UNCHANGED <<scheduler_vars, engine_vars, store, component_vars>>
    \/ GatherDone /\ UNCHANGED <<scheduler_vars, engine_vars, store, component_vars>>

WebhookSpec == WebhookInit /\ [][WebhookNext]_vars

\* A handler coroutine that raises, with a gather that hands the exception
\* on to the worker: the worker's except clause prints it and the loop goes
\* back to the queue while the other coroutines of the event are not done.
raise_in_handler_ends_gather(a, t) ==
    [a EXCEPT !.tasks = {u \in @ : u # t /\ u.st # "pending"},
              !.worker_task = "get"]

\* A handler coroutine that raises: gather(return_exceptions=True) takes the
\* exception as the result of that coroutine and goes on awaiting the others.
raise_in_handler(a, t) == [a EXCEPT !.tasks = @ \ {t}]

\* A handler raises while it processes its event (_call_webhook catches what
\* its request raises, so a webhook coroutine does not).
HandlerRaise(t) ==
    /\ t \in adapter.tasks
    /\ t.st = "running"
    /\ t.name \in Range(handlers[adapter.published[t.ev].trigger])
    /\ adapter' = raise_in_handler(adapter, t)
    /\ raises' = raises \cup {[name |-> t.name, ev |-> t.ev]}

WorkerNext ==
    \/ WebhookNext
    \/ \E t \in adapter.tasks :
          HandlerRaise(t)
          /\ UNCHANGED <<scheduler_vars, engine_vars, store, manager, validation,
                         factory, plan>>

WorkerSpec == WebhookInit /\ [][WorkerNext]_vars


(***************************************************************************)
(* EnhancedMemoryStore and its IndexManager.  The store's methods are      *)
(* synchronous, so each is an operator from the store to the store it      *)
(* leaves (and the value it returns, where a claim reads it).  Left out    *)
(* are the timestamps, the contents and the word indexes: a search is by   *)
(* status, metadata, type and tags, and its answer is the set of entities  *)
(* found, whatever their order by updated_at.                              *)
(***************************************************************************)
MaxMessages == 1         \* messages added to one thread

ThreadIds == {"t1", "t2"}
ItemIds == {"i1", "i2"}
AttachmentIds == {"f1"}

Statuses == {"active", "archived"}
MetadataChoices == {EmptyDict, [k \in {"env"} |-> "prod"], [k \in {"env"} |-> "dev"]}
ItemTypes == {"note", "task"}
TagLists == {<<>>, <<"x">>}
MimeTypes == {"text/plain", "image/png"}

\* The files of the host: each path that names a file, and the file's bytes.
FilePaths == {"report.txt", "missing.txt"}
files == [file_path \in {"report.txt"} |-> <<104, 105>>]

\* An argument left at its default None.
None == "None"

\* The updates given to update_thread and update_item.
ThreadUpdates ==
    {[k \in {"status"} |-> s] : s \in Statuses}
    \cup {[k \in {"metadata"} |-> m] : m \in MetadataChoices}

ItemUpdates ==
    {[k \in {"type"} |-> t] : t \in ItemTypes}
    \cup {[k \in {"tags"} |-> l] : l \in TagLists}

\* dict.get(key, set())
Get(dict, key) == IF key \in DOMAIN dict THEN dict[key] ELSE {}

\* dict[key] = value
Put(dict, key, value) ==
    [k \in DOMAIN dict \cup {key} |-> IF k = key THEN value ELSE dict[k]]

\* for key in keys: index[key].add(id), on a defaultdict(set)
AddEach(index, keys, id) ==
    [k \in DOMAIN index \cup keys |->
        Get(index, k) \cup (IF k \in keys THEN {id} ELSE {})]

\* for key, value in updates.items(): if hasattr(obj, key): setattr(...)
SetAttrs(obj, updates) ==
    [f \in DOMAIN obj |-> IF f \in DOMAIN updates THEN updates[f] ELSE obj[f]]

\* f"{key}:{value}"
index_key(key, value) == key \o ":" \o value

Thread(metadata) ==
    [status |-> "active", metadata |-> metadata, messages |-> 0,
     items |-> <<>>, attachments |-> <<>>]

Item(item_type) == [type |-> item_type, tags |-> <<>>, relations |-> <<>>]

\* os.path.getsize(file_path), and 0 when it raises
get_file_size(file_path) ==
    IF file_path \in DOMAIN files THEN Len(files[file_path]) ELSE 0

\* The hex digest of the file's bytes, and the empty string when open raises.
calculate_checksum(file_path) ==
    IF file_path \in DOMAIN files THEN <<"sha256", files[file_path]>> ELSE <<>>

Attachment(file_path, mime_type) ==
    [file_path |-> file_path, mime_type |-> mime_type,
     size |-> get_file_size(file_path), checksum |-> calculate_checksum(file_path)]

Thread_to_dict(id, thread) ==
    [id |-> id, metadata |-> thread.metadata, messages |-> thread.messages,
     attachments |-> thread.attachments, items |-> thread.items,
     status |-> thread.status]

Thread_from_dict(data) ==
    [Thread(data.metadata) EXCEPT !.messages = data.messages,
                                  !.attachments = data.attachments,
                                  !.items = data.items,
                                  !.status = data.status]

Item_to_dict(id, item) ==
    [id |-> id, type |-> item.type, relations |-> item.relations, tags |-> item.tags]

Item_from_dict(data) ==
    [Item(data.type) EXCEPT !.relations = data.relations, !.tags = data.tags]

Attachment_to_dict(id, attachment) ==
    [id |-> id, file_path |-> attachment.file_path, mime_type |-> attachment.mime_type,
     size |-> attachment.size, checksum |-> attachment.checksum]

Attachment_from_dict(data) ==
    [Attachment(data.file_path, data.mime_type) EXCEPT !.size = data.size,
                                                       !.checksum = data.checksum]

index_thread(indexes, id, thread) ==
    [indexes EXCEPT
       !.thread_by_status = AddEach(@, {thread.status}, id),
       !.thread_by_metadata =
          AddEach(@, {index_key(k, thread.metadata[k]) : k \in DOMAIN thread.metadata}, id)]

index_item(indexes, id, item) ==
    [indexes EXCEPT
       !.item_by_type = AddEach(@, {item.type}, id),
       !.item_by_tag = AddEach(@, Range(item.tags), id)]

index_attachment(indexes, id, attachment) ==
    [indexes EXCEPT !.attachment_by_type = AddEach(@, {attachment.mime_type}, id)]

\* results narrowed by each filter given; None left at the end is set().
Intersect(parts) ==
    IF parts = {} THEN {} ELSE {x \in UNION parts : \A part \in parts : x \in part}

index_search_threads(indexes, status, metadata) ==
    Intersect(
        (IF status # None THEN {Get(indexes.thread_by_status, status)} ELSE {})
        \cup {Get(indexes.thread_by_metadata, index_key(k, metadata[k])) :
                k \in DOMAIN metadata})

index_search_items(indexes, item_type, tags) ==
    Intersect(
        (IF item_type # None THEN {Get(indexes.item_by_type, item_type)} ELSE {})
        \cup {Get(indexes.item_by_tag, tag) : tag \in Range(tags)})

search_threads(S, status, metadata) ==
    {tid \in index_search_threads(S.indexes, status, metadata) : tid \in DOMAIN S.threads}

search_items(S, item_type, tags) ==
    {iid \in index_search_items(S.indexes, item_type, tags) : iid \in DOMAIN S.items}

get_statistics(S) ==
    [threads |->
        [total |-> Cardinality(DOMAIN S.threads),
         by_status |-> [k \in DOMAIN S.indexes.thread_by_status |->
                           Cardinality(S.indexes.thread_by_status[k])]],
     items |->
        [total |-> Cardinality(DOMAIN S.items),
         by_type |-> [k \in DOMAIN S.indexes.item_by_type |->
                         Cardinality(S.indexes.item_by_type[k])]],
     attachments |->
        [total |-> Cardinality(DOMAIN S.attachments),
         by_type |-> [k \in DOMAIN S.indexes.attachment_by_type |->
                         Cardinality(S.indexes.attachment_by_type[k])]]]

persist(S) ==
    [S EXCEPT !.disk =
        [threads |-> [id \in DOMAIN S.threads |-> Thread_to_dict(id, S.threads[id])],
         items |-> [id \in DOMAIN S.items |-> Item_to_dict(id, S.items[id])],
         attachments |-> [id \in DOMAIN S.attachments |->
                             Attachment_to_dict(id, S.attachments[id])]]]

\* The keys from_dict reads with data[key]: a record without one raises KeyError.
\* (created_at and updated_at are read so as well; the model keeps no dates.)
Required ==
    [thread |-> {"id"}, item |-> {"id", "type"},
     attachment |-> {"id", "file_path", "mime_type"}]

\* A document json.load cannot parse.
Unparseable == [text |-> "{"]

\* data.get(section, {})
Section(data, section) == IF section \in DOMAIN data THEN data[section] ELSE EmptyDict

\* One loop of _load_from_disk: each record is built, stored and indexed in
\* turn, and the first record that raises ends the loop with what is stored.
RECURSIVE LoadEach(_, _, _, _)
LoadEach(S, kind, records, ids) ==
    IF ids = {} THEN [ok |-> TRUE, store |-> S]
    ELSE LET id == CHOOSE x \in ids : TRUE
             data == records[id]
         IN  IF ~(Required[kind] \subseteq DOMAIN data)
             THEN [ok |-> FALSE, store |-> S]
             ELSE LET loaded ==
                        CASE kind = "thread" ->
                               LET thread == Thread_from_dict(data)
                               IN  [S EXCEPT !.threads = Put(@, id, thread),
                                             !.indexes = index_thread(@, id, thread)]
                          [] kind = "item" ->
                               LET item == Item_from_dict(data)
                               IN  [S EXCEPT !.items = Put(@, id, item),
                                             !.indexes = index_item(@, id, item)]
                          [] kind = "attachment" ->
                               LET attachment == Attachment_from_dict(data)
                               IN  [S EXCEPT !.attachments = Put(@, id, attachment),
                                             !.indexes = index_attachment(@, id, attachment)]
                  IN  LoadEach(loaded, kind, records, ids \ {id})

\* EnhancedMemoryStore(persist_path) on the file that holds data: the three
\* loops run in one try, and the except clause logs and returns.
load_from_disk(data) ==
    LET S0 == [NewStore EXCEPT !.disk = data]
    IN  IF "text" \in DOMAIN data THEN S0
        ELSE LET threads == LoadEach(S0, "thread", Section(data, "threads"),
                                     DOMAIN Section(data, "threads"))
                 items == LoadEach(threads.store, "item", Section(data, "items"),
                                   DOMAIN Section(data, "items"))
                 attachments == LoadEach(items.store, "attachment",
                                         Section(data, "attachments"),
                                         DOMAIN Section(data, "attachments"))
             IN  IF ~threads.ok THEN threads.store
                 ELSE IF ~items.ok THEN items.store
                 ELSE attachments.store

create_thread(S, thread_id, metadata) ==
    LET thread == Thread(metadata)
    IN  persist([S EXCEPT !.threads = Put(@, thread_id, thread),
                          !.indexes = index_thread(@, thread_id, thread)])

\* None for a thread that is not stored.
update_thread(S, thread_id, updates) ==
    IF thread_id \notin DOMAIN S.threads THEN S
    ELSE LET thread == SetAttrs(S.threads[thread_id], updates)
         IN  persist([S EXCEPT !.threads[thread_id] = thread,
                               !.indexes = index_thread(@, thread_id, thread)])

add_message(S, thread_id) ==
    IF thread_id \notin DOMAIN S.threads THEN S
    ELSE LET thread == [S.threads[thread_id] EXCEPT !.messages = @ + 1]
         IN  persist([S EXCEPT !.threads[thread_id] = thread,
                               !.indexes = index_thread(@, thread_id, thread)])

create_item(S, item_id, item_type) ==
    LET item == Item(item_type)
    IN  persist([S EXCEPT !.items = Put(@, item_id, item),
                          !.indexes = index_item(@, item_id, item)])

update_item(S, item_id, updates) ==
    IF item_id \notin DOMAIN S.items THEN S
    ELSE LET item == SetAttrs(S.items[item_id], updates)
         IN  persist([S EXCEPT !.items[item_id] = item,
                               !.indexes = index_item(@, item_id, item)])

create_attachment(S, attachment_id, file_path, mime_type) ==
    LET attachment == Attachment(file_path, mime_type)
    IN  persist([S EXCEPT !.attachments = Put(@, attachment_id, attachment),
                          !.indexes = index_attachment(@, attachment_id, attachment)])

\* The link methods return False for a thread or an entity that is not
\* stored; ret is the value returned, store the store left.
link_attachment_to_thread(S, thread_id, attachment_id) ==
    IF thread_id \notin DOMAIN S.threads \/ attachment_id \notin DOMAIN S.attachments
    THEN [ret |-> FALSE, store |-> S]
    ELSE [ret |-> TRUE,
          store |-> IF attachment_id \in Range(S.threads[thread_id].attachments)
                    THEN S
                    ELSE persist([S EXCEPT !.threads[thread_id].attachments =
                                              Append(@, attachment_id)])]

link_item_to_thread_unchecked(S, thread_id, item_id) ==
    IF thread_id \notin DOMAIN S.threads
    THEN [ret |-> FALSE, store |-> S]
    ELSE [ret |-> TRUE,
          store |-> IF item_id \in Range(S.threads[thread_id].items)
                    THEN S
                    ELSE persist([S EXCEPT !.threads[thread_id].items =
                                              Append(@, item_id)])]

link_item_to_thread(S, thread_id, item_id) ==
    IF thread_id \notin DOMAIN S.threads \/ item_id \notin DOMAIN S.items
    THEN [ret |-> FALSE, store |-> S]
    ELSE [ret |-> TRUE,
          store |-> IF item_id \in Range(S.threads[thread_id].items)
                    THEN S
                    ELSE persist([S EXCEPT !.threads[thread_id].items =
                                              Append(@, item_id)])]

link_items_one_way(S, item_id1, item_id2) ==
    IF item_id1 \notin DOMAIN S.items \/ item_id2 \notin DOMAIN S.items
    THEN [ret |-> FALSE, store |-> S]
    ELSE [ret |-> TRUE,
          store |-> persist([S EXCEPT !.items[item_id1].relations =
                                         IF item_id2 \in Range(@) THEN @
                                         ELSE Append(@, item_id2)])]

\* item1 and item2 are one object when the ids are equal.
link_items(S, item_id1, item_id2) ==
    IF item_id1 \notin DOMAIN S.items \/ item_id2 \notin DOMAIN S.items
    THEN [ret |-> FALSE, store |-> S]
    ELSE LET linked1 == [S.items EXCEPT ![item_id1].relations =
                            IF item_id2 \in Range(@) THEN @ ELSE Append(@, item_id2)]
             linked2 == [linked1 EXCEPT ![item_id2].relations =
                            IF item_id1 \in Range(@) THEN @ ELSE Append(@, item_id1)]
         IN  [ret |-> TRUE, store |-> persist([S EXCEPT !.items = linked2])]

StoreInit ==
    /\ SchedulerInit({[depends_on |-> [a |-> <<>>], max_parallel_agents |-> 5]})
    /\ vr = NoCall
    /\ ea = NoCall
    /\ adapter = NewAdapter
    /\ store = NewStore
    /\ ComponentsInit

CreateThread(thread_id, metadata) == store' = create_thread(store, thread_id, metadata)

UpdateThread(thread_id, updates) == store' = update_thread(store, thread_id, updates)

AddMessage(thread_id) ==
    /\ thread_id \in DOMAIN store.threads
       => store.threads[thread_id].messages < MaxMessages
    /\ store' = add_message(store, thread_id)

CreateItem(item_id, item_type) == store' = create_item(store, item_id, item_type)

UpdateItem(item_id, updates) == store' = update_item(store, item_id, updates)

CreateAttachment(attachment_id, file_path, mime_type) ==
    store' = create_attachment(store, attachment_id, file_path, mime_type)

LinkAttachmentToThread(thread_id, attachment_id) ==
    store' = link_attachment_to_thread(store, thread_id, attachment_id).store

LinkItemToThread(thread_id, item_id) ==
    store' = link_item_to_thread(store, thread_id, item_id).store

LinkItems(item_id1, item_id2) == store' = link_items(store, item_id1, item_id2).store

\* The mutations that index: two threads, one item, one attachment.
StoreNext ==
    \/ \E thread_id \in ThreadIds, metadata \in MetadataChoices :
          CreateThread(thread_id, metadata)
          /\ UNCHANGED <<scheduler_vars, engine_vars, adapter, component_vars>>
    \/ \E thread_id \in ThreadIds, updates \in ThreadUpdates :
          UpdateThread(thread_id, updates)
          /\ UNCHANGED <<scheduler_vars, engine_vars, adapter, component_vars>>
    \/ \E thread_id \in ThreadIds :
          AddMessage(thread_id) /\ UNCHANGED <<scheduler_vars, engine_vars, adapter, component_vars>>
    \/ \E item_type \in ItemTypes :
          CreateItem("i1", item_type) /\ UNCHANGED <<scheduler_vars, engine_vars, adapter, component_vars>>
    \/ \E updates \in ItemUpdates :
          UpdateItem("i1", updates) /\ UNCHANGED <<scheduler_vars, engine_vars, adapter, component_vars>>
    \/ \E mime_type \in MimeTypes :
          CreateAttachment("f1", "report.txt", mime_type)
          /\ UNCHANGED <<scheduler_vars, engine_vars, adapter, component_vars>>

StoreSpec == StoreInit /\ [][StoreNext]_vars

\* What can have happened to the snapshot file between two runs of the
\* process: nothing, a document cut short, or the records of one kind written
\* without a key the loader requires.
Damages == {"none", "document", "thread", "item", "attachment"}

Without(data, key) == [k \in DOMAIN data \ {key} |-> data[k]]

Damaged(data, damage) ==
    CASE damage = "none" -> data
      [] damage = "document" -> Unparseable
      [] "text" \in DOMAIN data -> data
      [] damage = "thread" ->
            [data EXCEPT !.threads =
                [id \in DOMAIN data.threads |-> Without(data.threads[id], "id")]]
      [] damage = "item" ->
            [data EXCEPT !.items =
                [id \in DOMAIN data.items |-> Without(data.items[id], "type")]]
      [] damage = "attachment" ->
            [data EXCEPT !.attachments =
                [id \in DOMAIN data.attachments |->
                    Without(data.attachments[id], "mime_type")]]

\* The process starts again on the snapshot file.
Restart(damage) == store' = load_from_disk(Damaged(store.disk, damage))

\* Creations, with files that exist and files that do not, and restarts.
SnapshotNext ==
    \/ \E thread_id \in ThreadIds :
          CreateThread(thread_id, EmptyDict)
          /\ UNCHANGED <<scheduler_vars, engine_vars, adapter, component_vars>>
    \/ \E item_type \in ItemTypes :
          CreateItem("i1", item_type) /\ UNCHANGED <<scheduler_vars, engine_vars, adapter, component_vars>>
    \/ \E file_path \in FilePaths :
          CreateAttachment("f1", file_path, "text/plain")
          /\ UNCHANGED <<scheduler_vars, engine_vars, adapter, component_vars>>
    \/ \E damage \in Damages :
          Restart(damage) /\ UNCHANGED <<scheduler_vars, engine_vars, adapter, component_vars>>

SnapshotSpec == StoreInit /\ [][SnapshotNext]_vars

\* Creations, of new ids and of ids already stored, and the link methods.
LinkNext ==
    \/ \E thread_id \in ThreadIds :
          CreateThread(thread_id, EmptyDict)
          /\ UNCHANGED <<scheduler_vars, engine_vars, adapter, component_vars>>
    \/ \E item_id \in ItemIds :
          CreateItem(item_id, "note") /\ UNCHANGED <<scheduler_vars, engine_vars, adapter, component_vars>>
    \/ \E attachment_id \in AttachmentIds :
          CreateAttachment(attachment_id, "report.txt", "text/plain")
          /\ UNCHANGED <<scheduler_vars, engine_vars, adapter, component_vars>>
    \/ \E thread_id \in ThreadIds, attachment_id \in AttachmentIds :
          LinkAttachmentToThread(thread_id, attachment_id)
          /\ UNCHANGED <<scheduler_vars, engine_vars, adapter, component_vars>>
    \/ \E thread_id \in ThreadIds, item_id \in ItemIds :
          LinkItemToThread(thread_id, item_id)
          /\ UNCHANGED <<scheduler_vars, engine_vars, adapter, component_vars>>
    \/ \E item_id1 \in ItemIds, item_id2 \in ItemIds :
          LinkItems(item_id1, item_id2)
          /\ UNCHANGED <<scheduler_vars, engine_vars, adapter, component_vars>>

LinkSpec == StoreInit /\ [][LinkNext]_vars


(***************************************************************************)
(* WebhookManager of the hub.  trigger_event delivers to the subscribed    *)
(* webhooks one after the other.  _deliver_webhook builds the delivery     *)
(* record, signs json.dumps(payload) when the webhook has a secret, posts  *)
(* json=payload and, in its finally clause, appends the record and cuts    *)
(* the history to its last max_history records.  A call is suspended only  *)
(* while it awaits a response, so calls of trigger_event interleave there. *)
(* A record's posts counts the requests sent for it and its n is its place *)
(* among all records appended; the code keeps neither.                     *)
(***************************************************************************)
MaxTriggers == 2         \* calls of trigger_event
MaxHistory == 2          \* self.max_history, which the code sets to 1000

retry_attempts == 3
DefaultRetryCount == 3

\* register_webhook(id, url, events, secret) as it is called
Registrations == {[id |-> "h1", secret |-> "s3cret"], [id |-> "h2", secret |-> None]}

\* The task named in the event's data, with and without a non-ASCII letter.
DataChoices == {"build", "caf<U+00E9>"}

\* A response below 400, one from 400 on, and no response at all.
Responses == {"2xx", "4xx", "error"}

\* The JSON text of a str.
dumps_str(text, ensure_ascii) ==
    IF ensure_ascii /\ text = "caf<U+00E9>"
    THEN "\"caf\\u00e9\""
    ELSE "\"" \o text \o "\""

\* The JSON text of the payload trigger_event builds.
json_dumps(payload, encoding) ==
    LET str(text) == dumps_str(text, encoding.ensure_ascii)
        key(name) == "\"" \o name \o "\"" \o encoding.key_separator
    IN  "{" \o key("event") \o str(payload.event) \o encoding.item_separator
            \o key("data") \o "{" \o key("task") \o str(payload.data.task) \o "}"
            \o encoding.item_separator
            \o key("timestamp") \o str(payload.timestamp) \o "}"

\* hmac.new(key, msg, hashlib.sha256).hexdigest(): one digest for each key
\* and message.
hmac_sha256(key, msg) == <<"hmac-sha256", key, msg>>

\* _deliver_webhook up to its await of client.post: the record, and the
\* request with the body httpx makes of json=payload.
begin_delivery(M, webhook, payload) ==
    [webhook |-> webhook,
     record |-> [id |-> Len(M.delivery_history) + 1, webhook_id |-> webhook.id,
                 status |-> "pending", attempts |-> 0, posts |-> 1, n |-> 0],
     request |->
        [body |-> json_dumps(payload, M.httpx),
         headers |->
            IF webhook.secret # None
            THEN [h \in {"Content-Type", "X-Webhook-Signature"} |->
                    IF h = "Content-Type" THEN <<"application/json">>
                    ELSE <<"sha256=",
                           hmac_sha256(webhook.secret, json_dumps(payload, PythonJson))>>]
            ELSE [h \in {"Content-Type"} |-> <<"application/json">>]]]

\* The finally clause with the cut at the other end.
append_record_keep_first(history, record) ==
    LET appended == Append(history, record)
    IN  IF Len(appended) > MaxHistory THEN SubSeq(appended, 1, MaxHistory) ELSE appended

\* The finally clause: append, then delivery_history[-max_history:].
append_record(history, record) ==
    LET appended == Append(history, record)
    IN  IF Len(appended) > MaxHistory
        THEN SubSeq(appended, Len(appended) - MaxHistory + 1, Len(appended))
        ELSE appended

\* WebhookEventAdapter._call_webhook of the platform: the requests it sends
\* when responses[k] answers the k-th of them, from the pass attempt of
\* range(retry_count + 1) on.
RECURSIVE call_webhook(_, _, _)
call_webhook(retry_count, responses, attempt) ==
    IF attempt > retry_count THEN 0
    ELSE IF responses[attempt + 1] = "2xx" THEN 1
    ELSE 1 + call_webhook(retry_count, responses, attempt + 1)

ManagerInit ==
    /\ SchedulerInit({[depends_on |-> [a |-> <<>>], max_parallel_agents |-> 5]})
    /\ vr = NoCall
    /\ ea = NoCall
    /\ adapter = NewAdapter
    /\ store = NewStore
    /\ manager \in {NewManager(PythonJson), NewManager(CompactJson)}
    /\ raises = {}
    /\ validation = NoCall
    /\ factory = NewFactory
    /\ plan = NoCall

\* register_webhook: self.webhooks[id] = webhook, in the place the id has.
RegisterWebhook(registration) ==
    LET webhook == [id |-> registration.id, secret |-> registration.secret,
                    active |-> TRUE]
        known == {k \in DOMAIN manager.webhooks : manager.webhooks[k].id = webhook.id}
    IN  manager' = [manager EXCEPT !.webhooks =
                       IF known = {} THEN Append(@, webhook)
                       ELSE [k \in DOMAIN @ |-> IF k \in known THEN webhook ELSE @[k]]]

\* unregister_webhook
UnregisterWebhook(id) ==
    manager' = [manager EXCEPT !.webhooks = SelectSeq(@, LAMBDA wh : wh.id # id)]

\* trigger_event up to its first await of a response.
TriggerEvent(task) ==
    LET subscribed == SelectSeq(manager.webhooks, LAMBDA wh : wh.active)
        payload == [event |-> "workflow.completed", data |-> [task |-> task],
                    timestamp |-> "2025-01-01T00:00:00"]
        called == [manager EXCEPT !.triggered = @ + 1]
    IN  /\ manager.triggered < MaxTriggers
        /\ manager' =
              IF subscribed = <<>> THEN called
              ELSE [called EXCEPT !.calls = @ \cup
                      {[call |-> called.triggered, payload |-> payload,
                        todo |-> Tail(subscribed),
                        delivery |-> begin_delivery(manager, Head(subscribed), payload)]}]

\* The response, or the lack of one, reaches _deliver_webhook: the record is
\* stored, and trigger_event goes on to its next webhook or returns.
Response(c, response) ==
    LET record == [c.delivery.record EXCEPT
                     !.status = IF response = "2xx" THEN "success" ELSE "failed",
                     !.n = manager.delivered + 1]
        stored == [manager EXCEPT
                     !.delivery_history = append_record(@, record),
                     !.delivered = @ + 1]
    IN  /\ c \in manager.calls
        /\ manager' =
              IF c.todo = <<>> THEN [stored EXCEPT !.calls = @ \ {c}]
              ELSE [stored EXCEPT !.calls = (@ \ {c}) \cup
                      {[c EXCEPT !.todo = Tail(@),
                                 !.delivery = begin_delivery(stored, Head(c.todo),
                                                             c.payload)]}]

ManagerNext ==
    \/ \E registration \in Registrations :
          RegisterWebhook(registration)
          /\ UNCHANGED <<scheduler_vars, engine_vars, hub_vars, raises, validation,
                         factory, plan>>
    \/ \E registration \in Registrations :
          UnregisterWebhook(registration.id)
          /\ UNCHANGED <<scheduler_vars, engine_vars, hub_vars, raises, validation,
                         factory, plan>>
    \/ \E task \in DataChoices :
          TriggerEvent(task)
          /\ UNCHANGED <<scheduler_vars, engine_vars, hub_vars, raises, validation,
                         factory, plan>>
    \/ \E c \in manager.calls, response \in Responses :
          Response(c, response)
          /\ UNCHANGED <<scheduler_vars, engine_vars, hub_vars, raises, validation,
                         factory, plan>>

ManagerSpec == ManagerInit /\ [][ManagerNext]_vars


(***************************************************************************)
(* The json_schema and regex validators of QualityGateSystem.  A text is a *)
(* sequence of characters; an output is a str or a dict.  json.loads,      *)
(* jsonschema.validate and the re functions are modelled on the texts,     *)
(* schemas and literal patterns listed here.  validate_gate gives the      *)
(* result of QualityGateSystem.validate together with the gate, the output *)
(* and the agent as the call leaves them.                                  *)
(***************************************************************************)
MaxValidations == 2      \* calls of validate on one gate and output

Str(text) == [kind |-> "str", text |-> text]
Dict(fields) == [kind |-> "dict", fields |-> fields]
Number(value) == [kind |-> "int", value |-> value]

\* a1    {"a":1}    {}    1
Texts ==
    { <<"a", "1">>,
      <<"{", "\"", "a", "\"", ":", "1", "}">>,
      <<"{", "}">>,
      <<"1">> }

Outputs == {Str(text) : text \in Texts} \cup {Dict([a |-> 1]), Dict(EmptyDict)}

\* The patterns a, 1} and ( of a regex gate, and the empty pattern.
Patterns == { <<"a">>, <<"1", "}">>, <<"(">>, <<>> }

Schemas ==
    { [type |-> "object", required |-> {"a"}],
      [type |-> "object", required |-> {}],
      [type |-> "objekt", required |-> {}] }

GateConfigs ==
    {[gate_id |-> "g1", gate_type |-> "json_schema", validation_config |-> EmptyDict]}
    \cup {[gate_id |-> "g1", gate_type |-> "json_schema",
           validation_config |-> [k \in {"schema"} |-> schema]] : schema \in Schemas}
    \cup {[gate_id |-> "g2", gate_type |-> "regex_match",
           validation_config |-> [k \in {"pattern"} |-> pattern]] : pattern \in Patterns}
    \cup {[gate_id |-> "g2", gate_type |-> "regex_match",
           validation_config |->
              [k \in {"pattern", "match_type"} |->
                  IF k = "pattern" THEN pattern ELSE <<match_type>>]] :
              pattern \in Patterns, match_type \in {"search", "match", "fullmatch"}}

\* What a validator does: it returns a bool or raises.
Return(passed) == [raised |-> FALSE, passed |-> passed, error |-> None]
Raise(error) == [raised |-> TRUE, passed |-> FALSE, error |-> error]

\* json.loads(text), where "JSONDecodeError" stands for the raise
json_loads(text) ==
    CASE text = <<"{", "\"", "a", "\"", ":", "1", "}">> -> Dict([a |-> 1])
      [] text = <<"{", "}">> -> Dict(EmptyDict)
      [] text = <<"1">> -> Number(1)
      [] OTHER -> [kind |-> "JSONDecodeError"]

\* str(output)
str(output) ==
    CASE output.kind = "str" -> output.text
      [] output = Dict([a |-> 1]) -> <<"{", "'", "a", "'", ":", " ", "1", "}">>
      [] output = Dict(EmptyDict) -> <<"{", "}">>

\* re.match, re.fullmatch and re.search for a pattern without metacharacters
re_match(pattern, text) ==
    Len(pattern) <= Len(text) /\ SubSeq(text, 1, Len(pattern)) = pattern

re_fullmatch(pattern, text) == text = pattern

re_search(pattern, text) ==
    \E k \in 0..(Len(text) - Len(pattern)) : SubSeq(text, k + 1, k + Len(pattern)) = pattern

validate_json_schema(gate, output) ==
    LET validation_config == gate.validation_config
    IN  IF "schema" \notin DOMAIN validation_config
        THEN Raise("JSON schema validation requires 'schema' in config")
        ELSE LET schema == validation_config["schema"]
                 instance == IF output.kind = "str" THEN json_loads(output.text)
                             ELSE output
             IN  IF instance.kind = "JSONDecodeError" THEN Return(FALSE)
                 ELSE IF schema.type # "object"
                 THEN Raise("'objekt' is not valid under any of the given schemas")
                 ELSE Return(/\ instance.kind = "dict"
                             /\ schema.required \subseteq DOMAIN instance.fields)

validate_regex(gate, output) ==
    LET validation_config == gate.validation_config
        pattern == IF "pattern" \in DOMAIN validation_config THEN validation_config["pattern"] ELSE <<>>
        match_type == IF "match_type" \in DOMAIN validation_config THEN validation_config["match_type"][1]
                      ELSE "search"
    IN  IF pattern = <<>> THEN Raise("Regex validation requires 'pattern' in config")
        ELSE IF pattern = <<"(">>
        THEN Raise("missing ), unterminated subpattern at position 0")
        ELSE CASE match_type = "match" -> Return(re_match(pattern, str(output)))
               [] match_type = "fullmatch" -> Return(re_fullmatch(pattern, str(output)))
               [] OTHER -> Return(re_search(pattern, str(output)))

\* validate with the parsed JSON kept as the output.
validate_gate_keeps_parsed(gate, output, agent) ==
    LET outcome == IF gate.gate_type = "json_schema" THEN validate_json_schema(gate, output)
                   ELSE validate_regex(gate, output)
        parsed == IF gate.gate_type = "json_schema" /\ output.kind = "str"
                     /\ json_loads(output.text).kind # "JSONDecodeError"
                  THEN json_loads(output.text) ELSE output
    IN  [result |-> validate(outcome.passed, parsed), error |-> outcome.error,
         gate |-> gate, output |-> parsed, agent |-> agent]

\* QualityGateSystem.validate for a json_schema or regex gate.
validate_gate(gate, output, agent) ==
    LET outcome == IF gate.gate_type = "json_schema" THEN validate_json_schema(gate, output)
                   ELSE validate_regex(gate, output)
    IN  [result |-> validate(outcome.passed, output), error |-> outcome.error,
         gate |-> gate, output |-> output, agent |-> agent]

ValidationInit ==
    /\ SchedulerInit({[depends_on |-> [a |-> <<>>], max_parallel_agents |-> 5]})
    /\ vr = NoCall
    /\ ea = NoCall
    /\ adapter = NewAdapter
    /\ store = NewStore
    /\ manager = NewManager(PythonJson)
    /\ raises = {}
    /\ \E gate \in GateConfigs, output \in Outputs :
          LET agent == [id |-> "agent_1", role |-> "a", state |-> "running"]
          IN  validation = [pc |-> "ready", gate |-> gate, output |-> output,
                            agent |-> agent,
                            given |-> [gate |-> gate, output |-> output, agent |-> agent],
                            results |-> <<>>]
    /\ factory = NewFactory
    /\ plan = NoCall

\* One more validate(gate, output, agent) on what the last one left.
Validate ==
    LET call == validate_gate(validation.gate, validation.output, validation.agent)
    IN  /\ Len(validation.results) < MaxValidations
        /\ validation' = [validation EXCEPT
                            !.gate = call.gate,
                            !.output = call.output,
                            !.agent = call.agent,
                            !.results = Append(@, [passed |-> call.result.passed,
                                                   error |-> call.error])]

ValidationNext ==
    Validate /\ UNCHANGED <<scheduler_vars, engine_vars, hub_vars, manager, raises,
                            factory, plan>>

ValidationSpec == ValidationInit /\ [][ValidationNext]_vars


(***************************************************************************)
(* QualityGateSystem._validate_custom.  validation_config["function"] is   *)
(* a dotted path, kept as the sequence of its components; modules are what *)
(* importlib can import on the host, each with its functions.  A function  *)
(* is named by what it computes of the output given to it.                 *)
(***************************************************************************)
\* The names bound in the module quality_gates by its import statements.
module_globals ==
    {"annotations", "json", "re", "Any", "Optional", "jsonschema", "AsyncOpenAI",
     "AgentInstance", "QualityGate", "QualityGateResult", "QualityGateType"}

modules ==
    [checks |-> [is_dict |-> [coroutine |-> FALSE],
                 is_text |-> [coroutine |-> FALSE],
                 has_a |-> [coroutine |-> TRUE],
                 never |-> [coroutine |-> FALSE]]]

FunctionPaths ==
    { <<"checks", "is_dict">>, <<"checks", "is_text">>, <<"checks", "has_a">>,
      <<"checks", "never">>, <<"checks", "missing">>, <<"nomodule", "f">>,
      <<"is_dict">> }

CustomGates ==
    {[gate_id |-> "g3", gate_type |-> "custom_function", validation_config |-> EmptyDict]}
    \cup {[gate_id |-> "g3", gate_type |-> "custom_function",
           validation_config |-> [k \in {"function"} |-> func_path]] :
             func_path \in FunctionPaths}

\* func(output), or the value of await func(output)
call_function(func_name, output) ==
    CASE func_name = "is_dict" -> output.kind = "dict"
      [] func_name = "is_text" -> output.kind = "str"
      [] func_name = "has_a" -> output.kind = "dict" /\ "a" \in DOMAIN output.fields
      [] OTHER -> FALSE

\* The path names a function of a module that can be imported.
resolves(func_path) ==
    /\ Len(func_path) = 2
    /\ func_path[1] \in DOMAIN modules
    /\ func_path[2] \in DOMAIN modules[func_path[1]]

\* The name asyncio is looked up in the module's globals when the line that
\* calls the function is evaluated; a name not bound there raises NameError,
\* which the except clause for ImportError and AttributeError lets through.
validate_custom(gate, output) ==
    LET validation_config == gate.validation_config
    IN  IF "function" \notin DOMAIN validation_config
        THEN Raise("Custom validation requires 'function' in config")
        ELSE LET func_path == validation_config["function"]
             IN  IF Len(func_path) < 2
                 THEN Raise("not enough values to unpack (expected 2, got 1)")
                 ELSE IF func_path[1] \notin DOMAIN modules
                 THEN Raise("Failed to load custom validator: No module named 'nomodule'")
                 ELSE IF func_path[2] \notin DOMAIN modules[func_path[1]]
                 THEN Raise("Failed to load custom validator: module 'checks' has no attribute 'missing'")
                 ELSE IF "asyncio" \notin module_globals
                 THEN Raise("name 'asyncio' is not defined")
                 ELSE Return(call_function(func_path[2], output))

\* QualityGateSystem.validate for a custom_function gate.
validate_custom_gate(gate, output, agent) ==
    LET outcome == validate_custom(gate, output)
    IN  [result |-> validate(outcome.passed, output), error |-> outcome.error,
         gate |-> gate, output |-> output, agent |-> agent]

CustomInit ==
    /\ SchedulerInit({[depends_on |-> [a |-> <<>>], max_parallel_agents |-> 5]})
    /\ vr = NoCall
    /\ ea = NoCall
    /\ adapter = NewAdapter
    /\ store = NewStore
    /\ manager = NewManager(PythonJson)
    /\ raises = {}
    /\ \E gate \in CustomGates, output \in Outputs :
          LET agent == [id |-> "agent_1", role |-> "a", state |-> "running"]
          IN  validation = [pc |-> "ready", gate |-> gate, output |-> output,
                            agent |-> agent,
                            given |-> [gate |-> gate, output |-> output, agent |-> agent],
                            results |-> <<>>]
    /\ factory = NewFactory
    /\ plan = NoCall

\* validate(gate, output, agent) on a custom_function gate
ValidateCustom ==
    LET call == validate_custom_gate(validation.gate, validation.output, validation.agent)
    IN  /\ Len(validation.results) < MaxValidations
        /\ validation' = [validation EXCEPT
                            !.results = Append(@, [passed |-> call.result.passed,
                                                   error |-> call.error])]

CustomNext ==
    ValidateCustom /\ UNCHANGED <<scheduler_vars, engine_vars, hub_vars, manager, raises,
                                  factory, plan>>

CustomSpec == CustomInit /\ [][CustomNext]_vars

(***************************************************************************)
(* AgentFactory.  agents maps the id of every instance the factory made to *)
(* its role and to the workflow id kept in its metadata; a workflow holds  *)
(* its config, the id of its parent and child_agents, from role to id.     *)
(* Ids are new on every creation (uuid4).  None of the three methods       *)
(* suspends before it is done.                                             *)
(***************************************************************************)
MaxAgents == 4           \* instances the factory makes

\* config.parent_role as the parser fills it in
parent_role == "orchestrator"

\* The agent_config.role given to spawn_child_agent.
SpawnRoles == Roles \cup {parent_role}

FactoryInit ==
    /\ SchedulerInit({[depends_on |-> [a |-> <<>>], max_parallel_agents |-> 5]})
    /\ vr = NoCall
    /\ ea = NoCall
    /\ adapter = NewAdapter
    /\ store = NewStore
    /\ manager = NewManager(PythonJson)
    /\ raises = {}
    /\ validation = NoCall
    /\ factory = NewFactory
    /\ plan = NoCall

\* _create_agent_instance, and the instance entered in self.agents
create_agent_instance(F, role, workflow_id) ==
    LET agent_id == Cardinality(DOMAIN F.agents) + 1
    IN  [id |-> agent_id,
         factory |-> [F EXCEPT !.agents =
                         Put(@, agent_id, [role |-> role, workflow_id |-> workflow_id])]]

create_workflow(F, workflow_id, cfg) ==
    LET made == create_agent_instance(F, parent_role, workflow_id)
    IN  [made.factory EXCEPT !.workflows =
            Put(@, workflow_id, [config |-> cfg, parent_agent |-> made.id,
                                 child_agents |-> EmptyDict])]

spawn_child_agent(F, workflow_id, role) ==
    LET made == create_agent_instance(F, role, workflow_id)
    IN  [made.factory EXCEPT !.workflows[workflow_id].child_agents = Put(@, role, made.id)]

\* The loops of OrchestrationEngine.spawn_children over the levels.
RECURSIVE SpawnEach(_, _, _)
SpawnEach(F, workflow_id, roles) ==
    IF roles = {} THEN F
    ELSE LET role == CHOOSE r \in roles : TRUE
         IN  SpawnEach(spawn_child_agent(F, workflow_id, role), workflow_id,
                       roles \ {role})

RECURSIVE SpawnLevels(_, _, _)
SpawnLevels(F, workflow_id, levels) ==
    IF levels = <<>> THEN F
    ELSE SpawnLevels(SpawnEach(F, workflow_id, Head(levels)), workflow_id, Tail(levels))

\* spawn_children: nothing is spawned when the order raises ValueError.
spawn_children(F, workflow_id) ==
    LET order == calculate_execution_order(F.workflows[workflow_id].config)
    IN  IF order.ok THEN SpawnLevels(F, workflow_id, order.levels) ELSE F

CreateWorkflow(workflow_id, cfg) ==
    /\ Cardinality(DOMAIN factory.agents) < MaxAgents
    /\ factory' = create_workflow(factory, workflow_id, cfg)

SpawnChildAgent(workflow_id, role) ==
    /\ workflow_id \in DOMAIN factory.workflows
    /\ Cardinality(DOMAIN factory.agents) < MaxAgents
    /\ factory' = spawn_child_agent(factory, workflow_id, role)

SpawnChildren(workflow_id) ==
    /\ workflow_id \in DOMAIN factory.workflows
    /\ Cardinality(DOMAIN factory.agents)
          + Cardinality(Children(factory.workflows[workflow_id].config)) <= MaxAgents
    /\ factory' = spawn_children(factory, workflow_id)

FactoryNext ==
    \/ \E workflow_id \in WorkflowIds, cfg \in Configs :
          CreateWorkflow(workflow_id, cfg)
          /\ UNCHANGED <<scheduler_vars, engine_vars, hub_vars, manager, raises,
                         validation, plan>>
    \/ \E workflow_id \in WorkflowIds, role \in SpawnRoles :
          SpawnChildAgent(workflow_id, role)
          /\ UNCHANGED <<scheduler_vars, engine_vars, hub_vars, manager, raises,
                         validation, plan>>
    \/ \E workflow_id \in WorkflowIds :
          SpawnChildren(workflow_id)
          /\ UNCHANGED <<scheduler_vars, engine_vars, hub_vars, manager, raises,
                         validation, plan>>

FactorySpec == FactoryInit /\ [][FactoryNext]_vars


(***************************************************************************)
(* calculate_execution_order on the plans of three children whose          *)
(* depends_on lists name children only: lists with and without repeated    *)
(* entries, graphs with and without cycles.                                *)
(***************************************************************************)
MaxDepends == 2          \* entries of one depends_on list

PlanRoles == {"a", "b", "c"}

DependsLists == UNION {[1..n -> PlanRoles] : n \in 0..MaxDepends}

Plans == [depends_on : [PlanRoles -> DependsLists], max_parallel_agents : {5}]

PlanInit ==
    /\ SchedulerInit({[depends_on |-> [a |-> <<>>], max_parallel_agents |-> 5]})
    /\ vr = NoCall
    /\ ea = NoCall
    /\ adapter = NewAdapter
    /\ store = NewStore
    /\ manager = NewManager(PythonJson)
    /\ raises = {}
    /\ validation = NoCall
    /\ factory = NewFactory
    /\ \E cfg \in Plans :
          plan = [pc |-> "given", config |-> cfg,
                  order |-> [ok |-> FALSE, levels |-> <<>>]]

\* VoiceCommandParser.calculate_execution_order(config) returns or raises.
CalculateExecutionOrder ==
    /\ plan.pc = "given"
    /\ plan' = [plan EXCEPT !.pc = "done",
                            !.order = calculate_execution_order(plan.config)]

PlanNext ==
    CalculateExecutionOrder
    /\ UNCHANGED <<scheduler_vars, engine_vars, hub_vars, manager, raises, validation,
                   factory>>

PlanSpec == PlanInit /\ [][PlanNext]_vars


(***************************************************************************)
(* The text indexes of IndexManager and the query argument of search.      *)
(*                                                                         *)
(* A text is the sequence of its characters.  The store of this section    *)
(* keeps what the searches read: a thread's status, metadata and message   *)
(* contents, an item's type, tags and content, and the indexes with        *)
(* thread_text_index and item_text_index beside the structural ones.       *)
(* Entities are created under ids not stored yet and are not updated, so   *)
(* that no index entry is out of date.                                     *)
(***************************************************************************)
Contents ==
    { <<"R", "e", "d", " ", "f", "o", "x">>,
      <<"r", "e", "d", " ", " ", "o", "x">> }

Queries ==
    { <<"r", "e", "d">>,
      <<"F", "O", "X">>,
      <<"r", "e", "d", " ", "f", "o", "x">>,
      <<"r", "e", "d", " ", "c", "a", "t">>,
      <<"c", "a", "t">>,
      <<>> }

\* str.lower() on the letters the texts use
lower_case == [R |-> "r", F |-> "f", O |-> "o", X |-> "x"]

lower(text) ==
    [i \in DOMAIN text |->
        IF text[i] \in DOMAIN lower_case THEN lower_case[text[i]] ELSE text[i]]

\* str.split(): the runs of characters between white space, none of them empty
RECURSIVE SplitFrom(_, _, _, _)
SplitFrom(text, i, word, words) ==
    IF i > Len(text)
    THEN IF word = <<>> THEN words ELSE Append(words, word)
    ELSE IF text[i] = " "
         THEN SplitFrom(text, i + 1, <<>>, IF word = <<>> THEN words ELSE Append(words, word))
         ELSE SplitFrom(text, i + 1, Append(word, text[i]), words)

split(text) == SplitFrom(text, 1, <<>>, <<>>)

\* IndexManager.__init__ with the text indexes
NewTextIndexes ==
    [thread_by_status |-> EmptyDict, thread_by_metadata |-> EmptyDict,
     item_by_type |-> EmptyDict, item_by_tag |-> EmptyDict,
     attachment_by_type |-> EmptyDict,
     thread_text_index |-> EmptyDict, item_text_index |-> EmptyDict]

NewTextStore == [threads |-> EmptyDict, items |-> EmptyDict, indexes |-> NewTextIndexes]

\* The words of a content that the text index takes: longer than two characters
indexed_words(content) == {word \in Range(split(lower(content))) : Len(word) > 2}

\* index_thread with its text part: every message's content is indexed
index_thread_text(indexes, id, thread) ==
    [index_thread(indexes, id, thread) EXCEPT
       !.thread_text_index =
          AddEach(@, UNION {indexed_words(thread.messages[k]) : k \in DOMAIN thread.messages},
                  id)]

\* index_item with its text part
index_item_text(indexes, id, item) ==
    [index_item(indexes, id, item) EXCEPT
       !.item_text_index = AddEach(@, indexed_words(item.content), id)]

\* The text part of a search, after the structural filters gave parts:
\* text_results is the intersection of the words' entries, and it narrows
\* the results only if it is truthy, that is, not None and not empty.
narrow_by_text(parts, text_index, query) ==
    LET words == split(lower(query))
        text_results == Intersect({Get(text_index, words[k]) : k \in DOMAIN words})
    IN  IF query # <<>> /\ text_results # {}
        THEN Intersect(parts \cup {text_results})
        ELSE Intersect(parts)

\* IndexManager.search_threads and search_items with a query
index_search_threads_text(indexes, query, status, metadata) ==
    narrow_by_text(
        (IF status # None THEN {Get(indexes.thread_by_status, status)} ELSE {})
        \cup {Get(indexes.thread_by_metadata, index_key(k, metadata[k])) :
                k \in DOMAIN metadata},
        indexes.thread_text_index, query)

index_search_items_text(indexes, query, item_type, tags) ==
    narrow_by_text(
        (IF item_type # None THEN {Get(indexes.item_by_type, item_type)} ELSE {})
        \cup {Get(indexes.item_by_tag, tag) : tag \in Range(tags)},
        indexes.item_text_index, query)

\* EnhancedMemoryStore.search_threads and search_items with a query (the ids
\* of what is returned; limit is left at its default)
search_threads_text(S, query, status, metadata) ==
    {tid \in index_search_threads_text(S.indexes, query, status, metadata) :
        tid \in DOMAIN S.threads}

search_items_text(S, query, item_type, tags) ==
    {iid \in index_search_items_text(S.indexes, query, item_type, tags) :
        iid \in DOMAIN S.items}

SearchInit ==
    /\ SchedulerInit({[depends_on |-> [a |-> <<>>], max_parallel_agents |-> 5]})
    /\ vr = NoCall
    /\ ea = NoCall
    /\ adapter = NewAdapter
    /\ store = NewTextStore
    /\ ComponentsInit

\* create_thread(thread_id, metadata)
CreateTextThread(thread_id, metadata) ==
    /\ thread_id \notin DOMAIN store.threads
    /\ LET thread == [status |-> "active", metadata |-> metadata, messages |-> <<>>]
       IN  store' = [store EXCEPT !.threads = Put(@, thread_id, thread),
                                  !.indexes = index_thread_text(@, thread_id, thread)]

\* add_message(thread_id, {"content": content})
AddTextMessage(thread_id, content) ==
    /\ thread_id \in DOMAIN store.threads
    /\ Len(store.threads[thread_id].messages) < MaxMessages
    /\ LET thread == [store.threads[thread_id] EXCEPT !.messages = Append(@, content)]
       IN  store' = [store EXCEPT !.threads[thread_id] = thread,
                                  !.indexes = index_thread_text(@, thread_id, thread)]

\* create_item(item_id, item_type, content)
CreateTextItem(item_id, item_type, content) ==
    /\ item_id \notin DOMAIN store.items
    /\ LET item == [type |-> item_type, tags |-> <<>>, content |-> content]
       IN  store' = [store EXCEPT !.items = Put(@, item_id, item),
                                  !.indexes = index_item_text(@, item_id, item)]

SearchNext ==
    \/ \E thread_id \in ThreadIds, metadata \in MetadataChoices :
          CreateTextThread(thread_id, metadata)
          /\ UNCHANGED <<scheduler_vars, engine_vars, adapter, component_vars>>
    \/ \E thread_id \in ThreadIds, content \in Contents :
          AddTextMessage(thread_id, content)
          /\ UNCHANGED <<scheduler_vars, engine_vars, adapter, component_vars>>
    \/ \E item_id \in ItemIds, item_type \in ItemTypes, content \in Contents :
          CreateTextItem(item_id, item_type, content)
          /\ UNCHANGED <<scheduler_vars, engine_vars, adapter, component_vars>>

SearchSpec == SearchInit /\ [][SearchNext]_vars

(***************************************************************************)
(* CreatorAgent of voice-automation-hub: the sub-agents of a command and   *)
(* their execution order.  A list of SubAgentSpec is the map from each      *)
(* agent_id to its dependencies; the order of the list is not read.        *)
(***************************************************************************)
Intents == {"code", "research", "test", "deploy", "analyze", "automate", "unknown"}

determine_required_agents(intent) ==
    CASE intent = "code" ->
            ("code-agent-1" :> <<>>) @@ ("test-agent-1" :> <<"code-agent-1">>)
      [] intent = "research" -> ("research-agent-1" :> <<>>)
      [] intent = "test" -> ("test-agent-1" :> <<>>)
      [] intent = "deploy" ->
            ("test-agent-1" :> <<>>) @@ ("cli-agent-1" :> <<"test-agent-1">>)
            @@ ("test-agent-2" :> <<"cli-agent-1">>)
      [] intent = "analyze" ->
            ("research-agent-1" :> <<>>) @@ ("analysis-agent-1" :> <<"research-agent-1">>)
      [] intent = "automate" -> ("browser-agent-1" :> <<>>) @@ ("cli-agent-1" :> <<>>)
      [] OTHER -> ("generic-agent-1" :> <<>>)

\* Lists of two sub-agents whose dependencies name each other, themselves and
\* an id that no agent has.
SubAgentLists == [Roles -> DependsLists]

\* The stages _determine_execution_order can return.  A stage is every
\* remaining agent of in-degree zero or, when there is none, the agent that
\* list(remaining)[0] yields: the first of a set in its iteration order, so
\* any of the remaining.  A stage's agents lower the in-degree of the agents
\* that stay, once for each of them that is among an agent's dependencies.
RECURSIVE StagesFrom(_, _, _, _)
StagesFrom(dependencies, remaining, in_degree, stages) ==
    IF remaining = {} THEN {stages}
    ELSE LET ready == {agent_id \in remaining : in_degree[agent_id] = 0}
             choices == IF ready # {} THEN {ready}
                        ELSE {{agent_id} : agent_id \in remaining}
         IN  UNION {
               StagesFrom(
                 dependencies,
                 remaining \ stage,
                 [other_id \in DOMAIN dependencies |->
                     in_degree[other_id]
                     - Cardinality({agent_id \in stage :
                                       agent_id \in Range(dependencies[other_id])})],
                 Append(stages, stage)) : stage \in choices }

determine_execution_order(dependencies) ==
    StagesFrom(dependencies, DOMAIN dependencies,
               [agent_id \in DOMAIN dependencies |-> Len(dependencies[agent_id])], <<>>)

CreatorInit ==
    /\ SchedulerInit({[depends_on |-> [a |-> <<>>], max_parallel_agents |-> 5]})
    /\ vr = NoCall
    /\ ea = NoCall
    /\ adapter = NewAdapter
    /\ store = NewStore
    /\ manager = NewManager(PythonJson)
    /\ raises = {}
    /\ validation = NoCall
    /\ factory = NewFactory
    /\ \E agents_given \in SubAgentLists \cup {determine_required_agents(intent) :
                                                 intent \in Intents} :
          plan = [pc |-> "given", agents |-> agents_given, execution_order |-> <<>>]

\* _determine_execution_order(agents), as process_voice_command calls it on
\* the agents of the command.
DetermineExecutionOrder ==
    /\ plan.pc = "given"
    /\ \E stages \in determine_execution_order(plan.agents) :
          plan' = [plan EXCEPT !.pc = "done", !.execution_order = stages]

CreatorNext ==
    DetermineExecutionOrder
    /\ UNCHANGED <<scheduler_vars, engine_vars, hub_vars, manager, raises, validation,
                   factory>>

CreatorSpec == CreatorInit /\ [][CreatorNext]_vars

(***************************************************************************)
(* The state machines of the specification and the plan's cycles, stated   *)
(* apart from the code that is checked against them.                        *)
(***************************************************************************)
WorkflowFSM ==
    { <<"creating", "running">>, <<"running", "completed">>, <<"running", "failed">>,
      <<"running", "cancelled">>, <<"running", "paused">>, <<"paused", "running">>,
      <<"paused", "cancelled">> }

AgentFSM ==
    { <<"creating", "running">>, <<"running", "completed">>, <<"running", "failed">>,
      <<"running", "cancelled">>, <<"running", "waiting">>, <<"waiting", "running">> }

\* x depends on y through at most n depends_on entries.
RECURSIVE DependsWithin(_, _, _, _)
DependsWithin(cfg, x, y, n) ==
    /\ n > 0
    /\ x \in Children(cfg)
    /\ \/ y \in Range(cfg.depends_on[x])
       \/ \E z \in Range(cfg.depends_on[x]) : DependsWithin(cfg, z, y, n - 1)

IsCyclic(cfg) ==
    \E r \in Children(cfg) : DependsWithin(cfg, r, r, Cardinality(Children(cfg)))

Count(seq, trigger) == Cardinality({k \in DOMAIN seq : seq[k][1] = trigger})

AgentEvents(seq) ==
    SelectSeq(seq, LAMBDA e : e[1] \in {"agent.started", "agent.completed", "agent.failed"})

RunningAgents == {r \in Roles : agents[r].state = "running"}

RunOver(i) == runs[i].pc \in {"returned", "raised"}

\* C1: for a plan whose depends_on graph has a cycle, execute_workflow never
\* sets the workflow RUNNING.
C1_CyclicNeverRunning ==
    IsCyclic(config) => \A k \in 2..Len(wfTrail) : wfTrail[k] # "running"

\* C2: a completed agent A completed no later than any agent B that depends
\* on it started.
C2_DependencyBeforeDependent ==
    \A A \in child_agents, B \in child_agents :
        (/\ A \in Range(config.depends_on[B])
         /\ agents[A].state = "completed"
         /\ agents[B].started_at # NoTime)
        => agents[A].completed_at <= agents[B].started_at

\* C3: the agents in state running never outnumber max_parallel_agents.
C3_ParallelBound ==
    Cardinality(RunningAgents) <= config.max_parallel_agents

\* C4: every change of an agent's state is a transition of the agent FSM, so
\* no agent leaves completed, failed or cancelled.
C4_AgentFSM ==
    [][\A r \in Roles :
          agents[r].state # agents'[r].state
          => <<agents[r].state, agents'[r].state>> \in AgentFSM]_vars

\* C5: every change of the workflow's state is a transition of the workflow
\* FSM, so the workflow never leaves completed, failed or cancelled.
C5_WorkflowFSM ==
    \A k \in 1..(Len(wfTrail) - 1) :
        wfTrail[k] # wfTrail[k + 1] => <<wfTrail[k], wfTrail[k + 1]>> \in WorkflowFSM

\* C6: once cancel_workflow, called while a level was executing, has returned,
\* no agent of the workflow is in state running.
C6_NoRunningAfterCancel ==
    cancelled_runs # {} => RunningAgents = {}

\* C7: an execute_workflow that was cancelled while it awaited a level ends
\* with exactly one terminal workflow event published, and it is not
\* workflow.completed.
C7_OneTerminalEventOnCancel ==
    \A i \in cancelled_runs \cap EngineRuns :
        RunOver(i) => /\ Count(events, "workflow.failed") = 1
                      /\ Count(events, "workflow.completed") = 0

\* C8: when execute_workflow has returned normally, one agent.completed event
\* per child agent has been published, and after them one workflow.completed.
C8_CompletedEvents ==
    \A i \in EngineRuns :
        runs[i].pc = "returned"
        => /\ Count(events, "agent.completed") = Cardinality(Children(config))
           /\ Count(events, "workflow.completed") = 1
           /\ events[Len(events)][1] = "workflow.completed"

\* C9: execute_workflow on a plan whose depends_on graph has a cycle raises,
\* leaves the workflow failed, creates no agent task, changes no agent's state
\* and publishes no agent event.
C9_CyclicPlanRefused ==
    [][(IsCyclic(config) /\ Len(runs') > Len(runs))
       => LET run == runs'[Len(runs')]
          IN  /\ run.pc = "raised"
              /\ \A r \in Roles : run.task[r] = "none"
              /\ workflow'.state = "failed"
              /\ agents' = agents
              /\ AgentEvents(events') = AgentEvents(events)]_vars

C9_Witness ==
    /\ IsCyclic(config)
    /\ EngineRuns # {}
    /\ workflow.state = "failed"
    /\ events = <<<<"workflow.failed", "-">>>>
    /\ \A r \in Roles : agents[r].state = "creating"

\* The retry loop may run: the first validation failed, the gate has
\* retry_on_fail and retry_func was given.
RetryCase ==
    /\ vr.outcomes # <<>>
    /\ ~vr.outcomes[1]
    /\ vr.gate.retry_on_fail
    /\ vr.retry_func

\* What C10 says of every call but for retry_attempted: retry_func is called
\* at most max_retries times and only in the retry case, each output it
\* returns is validated, no validation follows one that passed, retries go on
\* until a validation passes or max_retries is used up, and the result
\* returned is the last validation's.
RetryProtocol ==
    /\ vr.attempt <= vr.gate.max_retries
    /\ ~RetryCase => vr.attempt = 0
    /\ vr.pc = "returned" =>
          /\ Len(vr.outcomes) = vr.attempt + 1
          /\ \A k \in 1..(Len(vr.outcomes) - 1) : ~vr.outcomes[k]
          /\ vr.result.passed = vr.outcomes[Len(vr.outcomes)]
          /\ vr.result.output = vr.attempt
          /\ (RetryCase /\ ~vr.result.passed) => vr.attempt = vr.gate.max_retries

\* C10 as claimed: in the retry case the result returned has retry_attempted
\* set.
C10_RetryAttemptedAlways ==
    /\ RetryProtocol
    /\ (vr.pc = "returned" /\ RetryCase) => vr.result.retry_attempted

\* C10 as amended: the result returned has retry_attempted set exactly when
\* retry_func was called at least once, which in the retry case is when
\* max_retries >= 1.
C10_RetryProtocol ==
    /\ RetryProtocol
    /\ vr.pc = "returned" =>
          /\ vr.result.retry_attempted = (vr.attempt > 0)
          /\ RetryCase => (vr.result.retry_attempted = (vr.gate.max_retries >= 1))

C10_Witness ==
    /\ vr.pc = "returned"
    /\ RetryCase
    /\ vr.gate.max_retries = 2
    /\ vr.attempt = 2
    /\ vr.result.passed
    /\ vr.result.retry_attempted

\* A gate of the call ended with a result that did not pass: its retries
\* were used up, or it has no retry_on_fail.
GateFailed == \E k \in DOMAIN ea.gate_results : ~ea.gate_results[k]

\* C11: when execute_agent is over and a gate's final result did not pass,
\* the agent is in state failed, agent.failed was published and
\* agent.completed was not.
C11_GateFailureFailsAgent ==
    (ea.pc \in {"returned", "raised"} /\ GateFailed)
    => /\ agents["a"].state = "failed"
       /\ Count(events, "agent.failed") = 1
       /\ Count(events, "agent.completed") = 0

\* Run i has raised out of a level in which a task raised.
FailedLevel(i) ==
    /\ runs[i].pc = "raised"
    /\ runs[i].level >= 1
    /\ \E r \in Order.levels[runs[i].level] : runs[i].task[r] = "exc"

LaterRoles(i) ==
    UNION {Order.levels[l] : l \in (runs[i].level + 1)..Len(Order.levels)}

\* C12: when a task of a level has raised, the step in which execute_workflow
\* leaves the level sets the workflow failed with no agent of the level still
\* running, and from then on no agent of a later level is started.
C12_FailedLevelStopsWorkflow ==
    [][\A i \in DOMAIN runs :
          /\ (runs[i].pc = "gather" /\ runs'[i].pc = "raised")
             => /\ workflow'.state = "failed"
                /\ \A r \in Order.levels[runs[i].level] : agents'[r].state # "running"
          /\ FailedLevel(i)
             => \A r \in LaterRoles(i) :
                   agents'[r].state = "running" => agents[r].state = "running"]_vars

\* C13: while the workflow stays paused no task is created for an agent.
C13_NoSchedulingWhilePaused ==
    [][(workflow.state = "paused" /\ workflow'.state = "paused")
       => \A i \in DOMAIN runs' : \A r \in Roles :
             runs'[i].task[r] = "pending"
             => (i \in DOMAIN runs /\ runs[i].task[r] = "pending")]_vars

\* C14: an agent that is completed is not executed again.
C14_CompletedNotRerun ==
    [][\A r \in Roles :
          agents[r].state = "completed" => agents'[r].state # "running"]_vars

SameWorkflow(e1, e2) ==
    adapter.published[e1].workflow_id = adapter.published[e2].workflow_id

\* C15: each handler was started on the events of one workflow in the order
\* they were published, and once any handler has been started on an event no
\* handler of an event of that workflow published before it is unfinished.
C15_HandlersInPublicationOrder ==
    /\ \A n \in DOMAIN adapter.observed :
          \A i \in DOMAIN adapter.observed[n], j \in DOMAIN adapter.observed[n] :
             (i < j /\ SameWorkflow(adapter.observed[n][i], adapter.observed[n][j]))
             => adapter.observed[n][i] < adapter.observed[n][j]
    /\ \A t \in adapter.tasks, n \in DOMAIN adapter.observed :
          \A e2 \in Range(adapter.observed[n]) :
             SameWorkflow(t.ev, e2) => t.ev >= e2

C15_Witness ==
    /\ "audit" \in DOMAIN adapter.observed
    /\ adapter.observed["audit"] = <<1, 2>>
    /\ SameWorkflow(1, 2)
    /\ adapter.published[1].trigger # adapter.published[2].trigger
    /\ adapter.tasks = {}

\* C16: every index holds an id under a key exactly when the stored entity
\* of that id has the key now: a thread its status and its metadata pairs, an
\* item its type and its tags, an attachment its mime type.
C16_IndexesExact ==
    /\ \A tid \in ThreadIds :
          /\ \A status \in Statuses :
                tid \in Get(store.indexes.thread_by_status, status)
                <=> (tid \in DOMAIN store.threads /\ store.threads[tid].status = status)
          /\ \A m \in MetadataChoices : \A k \in DOMAIN m :
                tid \in Get(store.indexes.thread_by_metadata, index_key(k, m[k]))
                <=> /\ tid \in DOMAIN store.threads
                    /\ k \in DOMAIN store.threads[tid].metadata
                    /\ store.threads[tid].metadata[k] = m[k]
    /\ \A iid \in ItemIds :
          /\ \A item_type \in ItemTypes :
                iid \in Get(store.indexes.item_by_type, item_type)
                <=> (iid \in DOMAIN store.items /\ store.items[iid].type = item_type)
          /\ \A tags \in TagLists : \A tag \in Range(tags) :
                iid \in Get(store.indexes.item_by_tag, tag)
                <=> (iid \in DOMAIN store.items /\ tag \in Range(store.items[iid].tags))
    /\ \A aid \in AttachmentIds : \A mime_type \in MimeTypes :
          aid \in Get(store.indexes.attachment_by_type, mime_type)
          <=> /\ aid \in DOMAIN store.attachments
              /\ store.attachments[aid].mime_type = mime_type

\* C17: the store loaded from the snapshot the store has written answers
\* get_statistics, search_threads and search_items as the store does.
C17_SnapshotRoundTrip ==
    LET loaded == load_from_disk(store.disk)
    IN  /\ get_statistics(loaded) = get_statistics(store)
        /\ \A status \in Statuses \cup {None}, m \in MetadataChoices :
              search_threads(loaded, status, m) = search_threads(store, status, m)
        /\ \A item_type \in ItemTypes \cup {None}, tags \in TagLists :
              search_items(loaded, item_type, tags) = search_items(store, item_type, tags)

\* C18: search_threads with a status or a metadata filter returns exactly
\* the stored threads of that status whose metadata has every pair of the
\* filter; a filter not given matches every thread.
C18_SearchThreadsExact ==
    \A status \in Statuses \cup {None}, m \in MetadataChoices :
        (status # None \/ m # EmptyDict)
        => search_threads(store, status, m)
           = {tid \in DOMAIN store.threads :
                /\ status # None => store.threads[tid].status = status
                /\ \A k \in DOMAIN m :
                      /\ k \in DOMAIN store.threads[tid].metadata
                      /\ store.threads[tid].metadata[k] = m[k]}

NoDuplicates(seq) == Cardinality(Range(seq)) = Len(seq)

\* C19: every id in a thread's items and attachments is that of a stored
\* entity and is listed once, and a link to a thread, item or attachment that
\* is not stored returns False and leaves the store as it is.
C19_LinksResolve ==
    /\ \A tid \in DOMAIN store.threads :
          /\ Range(store.threads[tid].items) \subseteq DOMAIN store.items
          /\ Range(store.threads[tid].attachments) \subseteq DOMAIN store.attachments
          /\ NoDuplicates(store.threads[tid].items)
          /\ NoDuplicates(store.threads[tid].attachments)
    /\ \A tid \in ThreadIds, iid \in ItemIds :
          (tid \notin DOMAIN store.threads \/ iid \notin DOMAIN store.items)
          => link_item_to_thread(store, tid, iid) = [ret |-> FALSE, store |-> store]
    /\ \A tid \in ThreadIds, aid \in AttachmentIds :
          (tid \notin DOMAIN store.threads \/ aid \notin DOMAIN store.attachments)
          => link_attachment_to_thread(store, tid, aid) = [ret |-> FALSE, store |-> store]

C19_Witness ==
    /\ DOMAIN store.threads = {"t1"}
    /\ store.threads["t1"].items = <<"i2", "i1">>
    /\ store.threads["t1"].attachments = <<"f1">>
    /\ link_item_to_thread(store, "t2", "i1").ret = FALSE

Related(S, a, b) == b \in Range(S.items[a].relations)

Symmetric(S) ==
    \A a \in DOMAIN S.items, b \in DOMAIN S.items : Related(S, a, b) <=> Related(S, b, a)

C21_MissingFileRecordsNothing ==
    \A aid \in AttachmentIds, mime_type \in MimeTypes :
       LET after == create_attachment(store, aid, "missing.txt", mime_type)
       IN  /\ after.attachments = store.attachments
           /\ after.indexes.attachment_by_type = store.indexes.attachment_by_type
           /\ get_statistics(after) = get_statistics(store)

\* The snapshot the store was loaded from made the load fail.
LoadFailed(data) ==
    \/ "text" \in DOMAIN data
    \/ \E id \in DOMAIN data.threads : ~(Required.thread \subseteq DOMAIN data.threads[id])
    \/ \E id \in DOMAIN data.items : ~(Required.item \subseteq DOMAIN data.items[id])
    \/ \E id \in DOMAIN data.attachments :
          ~(Required.attachment \subseteq DOMAIN data.attachments[id])

\* C22: the store that results from a load that failed is empty: it holds no
\* thread, item, attachment or index entry.
C22_FailedLoadLeavesEmptyStore ==
    LoadFailed(store.disk)
    => /\ store.threads = EmptyDict
       /\ store.items = EmptyDict
       /\ store.attachments = EmptyDict
       /\ store.indexes = NewIndexes

C24_ThreeAttemptsBeforeFailure ==
    /\ \A k \in DOMAIN manager.delivery_history :
          LET record == manager.delivery_history[k]
          IN  /\ record.status = "failed" => record.posts = retry_attempts
              /\ record.status = "success" => record.posts >= 1
    /\ \A responses \in [1..(DefaultRetryCount + 1) -> Responses] :
          /\ (\A k \in DOMAIN responses : responses[k] # "2xx")
             => call_webhook(DefaultRetryCount, responses, 0) = retry_attempts
          /\ \A k \in DOMAIN responses :
                (responses[k] = "2xx" /\ \A j \in 1..(k - 1) : responses[j] # "2xx")
                => call_webhook(DefaultRetryCount, responses, 0) = k

\* C25: the delivery history holds at most max_history records, and they are
\* the records appended last, in the order they were appended.
C25_HistoryKeepsMostRecent ==
    LET history == manager.delivery_history
    IN  /\ Len(history) <= MaxHistory
        /\ \A k \in DOMAIN history :
              history[k].n = manager.delivered - Len(history) + k

C25_Witness ==
    /\ Len(manager.delivery_history) = MaxHistory
    /\ manager.delivered > MaxHistory
    /\ manager.calls # {}

\* C26: the event queue never holds more events than its bound (taken here
\* one below the number of events the model publishes), because a publish on
\* a full queue fails and enqueues nothing.
C26_QueueWithinBound == Len(adapter.event_queue) <= MaxEvents - 1

\* C27: the worker of a running adapter is alive whatever its handlers have
\* raised, and when the worker leaves the gather of an event for the queue,
\* every webhook and handler registered for the event was run on it.
C27_RaisingHandlerIsolated ==
    /\ [](adapter.running => adapter.worker_task \in {"get", "gather"})
    /\ [][(adapter.worker_task = "gather" /\ adapter'.worker_task = "get")
          => \A name \in Range(Subscribers(adapter.published[adapter.current].trigger)) :
                /\ name \in DOMAIN adapter'.observed
                /\ adapter.current \in Range(adapter'.observed[name])]_vars

C27_Witness ==
    /\ [name |-> "_handle_agent_completed", ev |-> 1] \in raises
    /\ "audit" \in DOMAIN adapter.observed
    /\ adapter.observed["audit"] = <<1, 2>>
    /\ adapter.running

C29_RolesUniqueInWorkflow ==
    \A id1 \in DOMAIN factory.agents, id2 \in DOMAIN factory.agents :
       (id1 # id2 /\ factory.agents[id1].workflow_id = factory.agents[id2].workflow_id)
       => factory.agents[id1].role # factory.agents[id2].role

\* The level a role is placed in.
LevelOf(levels, role) == CHOOSE k \in DOMAIN levels : role \in levels[k]

\* C30: for a plan whose depends_on graph has no cycle and names children
\* only, calculate_execution_order returns levels in which every role is in
\* exactly one level, after every role it depends on, and in the earliest
\* level that allows: the first level for a role without dependencies, else
\* the level after the last of its dependencies.
C30_LevelsPartitionAndEarliest ==
    (plan.pc = "done" /\ ~IsCyclic(plan.config))
    => LET cfg == plan.config
           levels == plan.order.levels
       IN  /\ plan.order.ok
           /\ \A k \in DOMAIN levels : levels[k] \subseteq Children(cfg)
           /\ \A role \in Children(cfg) :
                 /\ Cardinality({k \in DOMAIN levels : role \in levels[k]}) = 1
                 /\ \A dependency \in Range(cfg.depends_on[role]) :
                       LevelOf(levels, dependency) < LevelOf(levels, role)
                 /\ \A k \in 1..(LevelOf(levels, role) - 1) :
                       \E dependency \in Range(cfg.depends_on[role]) :
                          LevelOf(levels, dependency) >= k

\* Some depends_on entry of the plan names a role that is not a child.
DependsOutside(cfg) ==
    \E role \in Children(cfg) : ~(Range(cfg.depends_on[role]) \subseteq Children(cfg))

\* The plans of two children whose depends_on lists draw on three roles.
OpenPlans == [depends_on : [Roles -> DependsLists], max_parallel_agents : {5}]

\* C31: a plan in which some depends_on entry names a role that is not a
\* child is refused: calculate_execution_order raises for every such plan,
\* every execute_workflow on it raises and leaves the workflow failed, with no
\* agent task created, and no agent of the workflow ever leaves creating.
C31_UnknownDependencyRefused ==
    /\ \A cfg \in OpenPlans : DependsOutside(cfg) => ~calculate_execution_order(cfg).ok
    /\ [](DependsOutside(config)
          => /\ \A r \in Roles : /\ agents[r].state = "creating"
                                 /\ agents[r].started_at = NoTime
                                 /\ execution_tasks[r] = NoTask
             /\ \A i \in DOMAIN runs : runs[i].pc = "raised" /\ runs[i].level = 0)
    /\ [][(DependsOutside(config) /\ Len(runs') > Len(runs))
          => workflow'.state = "failed"]_vars

C31_Witness ==
    /\ DependsOutside(config)
    /\ EngineRuns # {}
    /\ ResumeRuns # {}
    /\ workflow.state = "failed"
    /\ \A r \in Roles : agents[r].state = "creating"

\* C32: when execute_workflow executes a level of a workflow whose child
\* agents were not all spawned before, every role of the level is given an
\* instance and a task, so no run is aborted for a role without an instance.
C32_ChildrenSpawnedLazily ==
    \A i \in DOMAIN runs :
        (Order.ok /\ runs[i].level \in DOMAIN Order.levels)
        => \A r \in Order.levels[runs[i].level] : runs[i].task[r] # "none"

\* The words of a text, case-folded.
WordsOf(text) == Range(split(lower(text)))

\* C33: a search with a structural filter and a query returns exactly the
\* stored entities that satisfy the filter and whose text contains every
\* word of the query; so it returns nothing when some word of the query is
\* in no entity.
C33_QueryAndFilters ==
    \A query \in Queries \ {<<>>} :
       /\ \A status \in Statuses, metadata \in MetadataChoices :
             search_threads_text(store, query, status, metadata)
             = {tid \in DOMAIN store.threads :
                   LET thread == store.threads[tid]
                   IN  /\ thread.status = status
                       /\ \A k \in DOMAIN metadata :
                             k \in DOMAIN thread.metadata
                             /\ thread.metadata[k] = metadata[k]
                       /\ WordsOf(query) \subseteq
                             UNION {WordsOf(thread.messages[k]) : k \in DOMAIN thread.messages}}
       /\ \A item_type \in ItemTypes :
             search_items_text(store, query, item_type, <<>>)
             = {iid \in DOMAIN store.items :
                   /\ store.items[iid].type = item_type
                   /\ WordsOf(query) \subseteq WordsOf(store.items[iid].content)}

\* C34: when stop() ends the worker, every event published before has been
\* taken from the queue and handed to each handler and webhook registered for
\* its trigger (in the model every handler can finish, so no deadline cuts
\* the drain short).
C34_StopDrainsQueue ==
    [][(adapter.running /\ ~adapter'.running)
       => /\ adapter'.event_queue = <<>>
          /\ \A ev \in DOMAIN adapter.published :
                \A n \in Range(Subscribers(adapter.published[ev].trigger)) :
                   /\ n \in DOMAIN adapter'.observed
                   /\ ev \in Range(adapter'.observed[n])]_vars

\* C35: the result of a custom gate whose function path resolves passes
\* exactly when the function returns a truthy value for the output, and it
\* carries no error; a result carries an error only when the path does not
\* resolve.
C35_CustomGatePassesOnTruthy ==
    \A k \in DOMAIN validation.results :
       LET validation_config == validation.gate.validation_config
           resolved == /\ "function" \in DOMAIN validation_config
                       /\ resolves(validation_config["function"])
       IN  /\ resolved
              => /\ validation.results[k].passed
                    = call_function(validation_config["function"][2], validation.output)
                 /\ validation.results[k].error = None
           /\ validation.results[k].error # None => ~resolved

Retried == ea.output > 1

\* C37: after a retry that a gate set off, the output execute_agent gives to
\* each later gate, and the output it returns and puts in the agent.completed
\* event, is the agent's stored output, that of the most recent run.
C37_ReturnsStoredOutput ==
    /\ (ea.pc = "returned" /\ Retried) => ea.result = ea.output
    /\ (ea.pc = "gate" /\ vr.pc = "called" /\ Retried) => ea.result = ea.output

\* C38: a webhook registered when a workflow was created is called only for
\* events of that workflow.
C38_WebhookSeesOwnWorkflowOnly ==
    \A hook \in DOMAIN webhook_workflow \cap DOMAIN adapter.observed :
       \A k \in DOMAIN adapter.observed[hook] :
          adapter.published[adapter.observed[hook][k]].workflow_id = webhook_workflow[hook]

\* C39: while the workflow is completed or failed none of its agents is
\* running, and no agent's state changes in a step taken from such a state.
C39_TerminalWorkflowAgentsAtRest ==
    /\ [](workflow.state \in {"completed", "failed"} => RunningAgents = {})
    /\ [][workflow.state \in {"completed", "failed"}
          => \A r \in Roles : agents'[r].state = agents[r].state]_vars

\* C40: no two records of the delivery history have the same id.
C40_DeliveryIdsUnique ==
    \A j \in DOMAIN manager.delivery_history, k \in DOMAIN manager.delivery_history :
       j # k => manager.delivery_history[j].id # manager.delivery_history[k].id
====
